---- MODULE Spec2Model ----
(***************************************************************************)
(* The inventory-sale transaction engine of Darusalaampharmcy.             *)
(*                                                                         *)
(* Embedded variant (src/src/db/db.js): createSale runs inside one Dexie   *)
(* 'rw' transaction over the medicines and sales tables.  IndexedDB runs   *)
(* read-write transactions with overlapping scope one at a time, a         *)
(* transaction reads its own writes, and an exception thrown inside the    *)
(* transaction body aborts it and discards everything it wrote.            *)
(*                                                                         *)
(* Networked variant (src/unnamed/part_004, the Supabase wrapper):         *)
(* createSale looks the user up and calls the process_sale procedure on    *)
(* the server; createCustomSale inserts a row into the sales table.  The   *)
(* procedure's body is not part of the application sources: it is modelled *)
(* from the design (one server-side transaction that validates, re-reads,  *)
(* decrements and records).  A request or a response may be lost.          *)
(*                                                                         *)
(* Prices are integers (the smallest currency unit).                       *)
(***************************************************************************)
EXTENDS Integers, Sequences, FiniteSets, TLC

\* ------------------------------------------------------------------ bounds
MaxInitQty == 2       \* initial stock of an item is 0..MaxInitQty
MaxArg == 2           \* createSale quantity arguments are -1..MaxArg
MaxSales == 2         \* calls made so far that may still add a record: at most MaxSales

\* ------------------------------------------------------------- small sets
Callers == {1, 2}
MedIds == {1, 2}
QtyArgs == {0 - 1, 0} \cup 1..MaxArg
NULL == 0             \* null / undefined (no id, no user)

Max(S) == CHOOSE i \in S : \A j \in S : i >= j
Min(S) == CHOOSE i \in S : \A j \in S : i <= j

MedName(id) == IF id = 1 THEN "Aspirin" ELSE "Panadol"
MedPrice(id) == IF id = 1 THEN 5 ELSE 3
MedCost(id) == IF id = 1 THEN 4 ELSE 2    \* purchase_price

VARIABLES
    medicines,  \* db.medicines as committed: [present ids -> [name, price, quantity]]
    sales,      \* db.sales as committed: sequence of sale records, in primary-key order
    tx,         \* per caller: its 'rw' transaction, with its working copy of both tables
    pc,         \* per caller: where its createSale call stands
    args,       \* per caller: the arguments of its call
    medicine,   \* per caller: the local `medicine` read in step 1
    saleId,     \* per caller: the local `saleId` returned by db.sales.add
    result,     \* per caller: the object the call returned
    now,        \* the wall clock (new Date()), in ticks since the epoch, UTC
    tz,         \* the offset of the terminal's local time from UTC, in ticks
    stock0,     \* history: the quantity each item started with
    srvMedicines,  \* the server's medicines table: [present ids -> row]
    srvSales,      \* the server's sales table, in id order
    session,    \* per caller: the signed-in user of its terminal, or NULL
    req,        \* per caller: the networked operation it called and its arguments
    resp,       \* per caller: the response on its way back from the server
    effect,     \* history, per caller: what its current call did to the server's tables
    selected,   \* per caller: selectedMedicine of its point-of-sale screen, or NoSelection
    edits,      \* how many inventory edits (add, update, delete, adjust) were made so far
    dash,       \* the getDashboardStats call in progress: its position, what it has read,
                \* and (history) whether a read of it failed and was taken as no rows
    snaps,      \* history: the committed states that existed while that call was running
    view,       \* what the query that has just run returned to its caller
    report,     \* the Reports page: its view mode and date boxes, the lists its
                \* useSales hook holds, and the loads it is waiting for
    auth,       \* the AuthProvider: user, profile, loading, error, and the requests
                \* it is waiting for
    pos,        \* the sale screen of the terminal: isProcessing, mode, customItem, and
                \* (history) the handleSale invocations that have not ended
    stockAdjustments,  \* the server's stock_adjustments table, in id order
    adjustment,        \* the addStockAdjustment call in progress
    nextMedicineId     \* the key the medicines table gives the next new row

netVars == <<srvMedicines, srvSales, session, req, resp, effect>>
embVars == <<medicines, sales, tx, args, medicine, saleId, stock0>>
invVars == <<stockAdjustments, adjustment, nextMedicineId>>
pageVars == <<view, report, auth, pos>>
appVars == <<selected, edits, dash, snaps, pageVars, invVars>>
clock == <<now, tz>>
vars == <<medicines, sales, tx, pc, args, medicine, saleId, result, clock, stock0, netVars,
          appVars>>

\* ------------------------------------------------------------ values
NoTx == [medicines |-> <<>>, sales |-> <<>>, active |-> FALSE]
NoArgs == [medicineId |-> NULL, quantity |-> 0]
NoMedicine == [quantity |-> 0, name |-> "", price |-> 0]
NoError == [message |-> "", available |-> 0, requested |-> 0]
NoData == [saleId |-> NULL, medicineName |-> "", quantitySold |-> 0, totalPrice |-> 0,
           remainingStock |-> 0]
NoResult == [returned |-> FALSE, success |-> FALSE, error |-> NoError, data |-> NoData]

NoReq == [medicineId |-> NULL, quantity |-> 0, name |-> "", totalPrice |-> 0, op |-> "none"]
NoResp == [error |-> NoError, data |-> NoResult, status |-> "none"]
NoEffect == [rows |-> {}, stock |-> FALSE]
NoSelection == [id |-> NULL, quantity |-> 0, name |-> "", price |-> 0]
NoStats == [totalMedicines |-> 0, totalItems |-> 0, totalStockValue |-> 0,
            todaysSalesCount |-> 0, todaysRevenue |-> 0, lowStockCount |-> 0,
            lowStockItems |-> <<>>]
NoDash == [medicines |-> <<>>, pc |-> "idle", result |-> NoStats, success |-> FALSE,
           todaysSales |-> <<>>, lowStockMeds |-> <<>>, swallowed |-> FALSE]
NoView == [args |-> <<>>, success |-> FALSE, data |-> <<>>, query |-> "none"]
\* useMemo stats over no sales
NoReportStats == [totalItems |-> 0, totalRevenue |-> 0, totalTransactions |-> 0,
                  avgTransaction |-> <<0, 1>>, topSelling |-> <<>>]
\* The Reports page is not open.
NoReport == [sales |-> <<>>, pc |-> "closed", error |-> FALSE,
             todaysSales |-> <<>>, viewMode |-> "all", dateRange |-> [start |-> 0, end |-> 0], loading |-> TRUE,
             fetching |-> FALSE, ranging |-> <<>>, failed |-> FALSE,
             stats |-> NoReportStats]
\* profile === null
NoProfile == [id |-> NULL, role |-> ""]
\* The AuthProvider is not mounted: useState(null), useState(null), useState(true),
\* useState(null).
NoAuth == [user |-> NULL, pc |-> "unmounted", error |-> FALSE, loading |-> TRUE,
           profile |-> NoProfile, initAuth |-> FALSE, fetches |-> {}]
\* customItem as reset: { name: '', price: '', quantity: 1 }
NoCustomItem == [quantity |-> 1, name |-> "", price |-> 0]
\* The sale screen as mounted, with no handleSale running.
NoPos == [isProcessing |-> FALSE, mode |-> "inventory", customItem |-> NoCustomItem,
          running |-> 0]
NoAdjustment == [pc |-> "idle", medicineId |-> NULL, quantity |-> 0, type |-> ""]

\* (faulty variant: no `if (!medicine)` check, reading medicine.quantity throws)
MedicineUndefinedError ==
    [message |-> "Cannot read properties of undefined", available |-> 0, requested |-> 0]
\* new Error('Medicine not found')
MedicineNotFoundError == [message |-> "Medicine not found", available |-> 0, requested |-> 0]

\* (faulty variant: the two numbers of the message swapped)
InsufficientStockErrorSwapped(med, quantity) ==
    [message |-> "Insufficient stock", available |-> quantity, requested |-> med.quantity]
\* new Error(`Insufficient stock. Available: ${medicine.quantity}, Requested: ${quantity}`)
InsufficientStockError(med, quantity) ==
    [message |-> "Insufficient stock", available |-> med.quantity, requested |-> quantity]

\* a rejected IndexedDB request (storage unavailable, quota, ...)
StorageError == [message |-> "Storage failure", available |-> 0, requested |-> 0]

\* (faulty variant: no catch block, the exception reaches the caller and nothing is
\* returned)
Thrown(error) == [returned |-> FALSE, success |-> FALSE, error |-> error, data |-> NoData]
\* { success: false, error: error.message }
Failure(error) == [returned |-> TRUE, success |-> FALSE, error |-> error, data |-> NoData]
\* { success: true, data: result }
Success(data) == [returned |-> TRUE, success |-> TRUE, error |-> NoError, data |-> data]

\* ------------------------------------------------ createSale's computations
\* (faulty variant: the check lets one unit too many through)
StockCheckOffByOne(med, quantity) == med.quantity + 1 < quantity
\* if (medicine.quantity < quantity) throw
StockCheckFails(med, quantity) == med.quantity < quantity

\* (faulty variant: + for *)
TotalPriceSum(med, quantity) == med.price + quantity
\* const totalPrice = medicine.price * quantity
TotalPrice(med, quantity) == med.price * quantity

\* (faulty variant: one unit more is taken than is recorded)
NewQuantityDropsOne(med, quantity) == med.quantity - quantity - 1
\* const newQuantity = medicine.quantity - quantity
NewQuantity(med, quantity) == med.quantity - quantity

\* the object handed to db.sales.add, with the auto-incremented key
SaleRecord(id, medicineId, med, quantity) ==
    [id |-> id, medicineId |-> medicineId, medicineName |-> med.name,
     quantitySold |-> quantity, unitPrice |-> med.price,
     totalPrice |-> TotalPrice(med, quantity), saleDate |-> now]

\* the object the transaction body returns
SaleData(id, med, quantity) ==
    [saleId |-> id, medicineName |-> med.name, quantitySold |-> quantity,
     totalPrice |-> TotalPrice(med, quantity),
     remainingStock |-> NewQuantity(med, quantity)]

\* ------------------------------------------------------- the transaction
\* (faulty variant: the writes made before the exception stay, as they would
\* without the transaction)
KeepsWrites(c) == [medicines |-> tx[c].medicines, sales |-> tx[c].sales]
\* What an aborted transaction leaves in the tables: the committed pre-image.
RolledBack(c) == [medicines |-> medicines, sales |-> sales]

\* (faulty variant: transactions are not serialized)
StartsAtOnce == TRUE
\* IndexedDB starts a read-write transaction only when no other transaction whose
\* scope overlaps it is running.
NoTxRunning == \A d \in Callers : ~tx[d].active

\* The transaction body threw: Dexie aborts the transaction, the catch block of
\* createSale turns the exception into { success: false, error }.
Abort(c, error) ==
    /\ medicines' = RolledBack(c).medicines
    /\ sales' = RolledBack(c).sales
    /\ tx' = [tx EXCEPT ![c] = NoTx]
    /\ pc' = [pc EXCEPT ![c] = "done"]
    /\ result' = [result EXCEPT ![c] = Failure(error)]
    /\ UNCHANGED <<args, medicine, saleId, clock, appVars, stock0, netVars>>

\* What a call of createSale does to the store and the caller, whoever calls it.
createSale_called(c, medicineId, quantity) ==
    /\ pc[c] = "idle"
    /\ Len(sales) + Cardinality({d \in Callers : pc[d] # "idle"}) < MaxSales
    /\ pc' = [pc EXCEPT ![c] = "queued"]
    /\ args' = [args EXCEPT ![c] = [medicineId |-> medicineId, quantity |-> quantity]]
    /\ medicine' = [medicine EXCEPT ![c] = NoMedicine]
    /\ saleId' = [saleId EXCEPT ![c] = NULL]
    /\ result' = [result EXCEPT ![c] = NoResult]
    /\ UNCHANGED <<medicines, sales, tx, clock, stock0, netVars>>

\* export async function createSale(medicineId, quantity): the call is made and
\* db.transaction('rw', db.medicines, db.sales, ...) is requested.
createSale(c, medicineId, quantity) ==
    /\ createSale_called(c, medicineId, quantity)
    /\ UNCHANGED appVars

\* The transaction starts once no other transaction on these tables is running.
TxBegin(c) ==
    /\ pc[c] = "queued"
    /\ NoTxRunning
    /\ tx' = [tx EXCEPT ![c] = [active |-> TRUE, medicines |-> medicines, sales |-> sales]]
    /\ pc' = [pc EXCEPT ![c] = "get"]
    /\ UNCHANGED <<medicines, sales, args, medicine, saleId, result, clock, appVars, stock0, netVars>>

\* (faulty variant: the item object the sale screen holds is trusted instead of
\* the row the transaction reads)
createSale_getCached(c) ==
    /\ pc[c] = "get"
    /\ tx[c].active
    /\ \/ Abort(c, StorageError)
       \/ /\ args[c].medicineId \notin DOMAIN tx[c].medicines
          /\ Abort(c, MedicineNotFoundError)
       \/ /\ args[c].medicineId \in DOMAIN tx[c].medicines
          /\ StockCheckFails(selected[c], args[c].quantity)
          /\ Abort(c, InsufficientStockError(selected[c], args[c].quantity))
       \/ /\ args[c].medicineId \in DOMAIN tx[c].medicines
          /\ ~StockCheckFails(selected[c], args[c].quantity)
          /\ medicine' = [medicine EXCEPT ![c] =
                             [name |-> selected[c].name, price |-> selected[c].price,
                              quantity |-> selected[c].quantity]]
          /\ pc' = [pc EXCEPT ![c] = "update"]
          /\ UNCHANGED <<medicines, sales, tx, args, saleId, result, clock, appVars, stock0, netVars>>
\* Steps 1 and 2: const medicine = await db.medicines.get(medicineId); the two checks.
createSale_get(c) ==
    /\ pc[c] = "get"
    /\ tx[c].active
    /\ \/ Abort(c, StorageError)
       \/ /\ args[c].medicineId \notin DOMAIN tx[c].medicines
          /\ Abort(c, MedicineNotFoundError)
       \/ /\ args[c].medicineId \in DOMAIN tx[c].medicines
          /\ StockCheckFails(tx[c].medicines[args[c].medicineId], args[c].quantity)
          /\ Abort(c, InsufficientStockError(tx[c].medicines[args[c].medicineId],
                                             args[c].quantity))
       \/ /\ args[c].medicineId \in DOMAIN tx[c].medicines
          /\ ~StockCheckFails(tx[c].medicines[args[c].medicineId], args[c].quantity)
          /\ medicine' = [medicine EXCEPT ![c] = tx[c].medicines[args[c].medicineId]]
          /\ pc' = [pc EXCEPT ![c] = "update"]
          /\ UNCHANGED <<medicines, sales, tx, args, saleId, result, clock, appVars, stock0, netVars>>

\* Steps 3 and 4: await db.medicines.update(medicineId, { quantity: newQuantity })
createSale_update(c) ==
    /\ pc[c] = "update"
    /\ tx[c].active
    /\ \/ Abort(c, StorageError)
       \/ /\ tx' = [tx EXCEPT ![c].medicines[args[c].medicineId].quantity =
                        NewQuantity(medicine[c], args[c].quantity)]
          /\ pc' = [pc EXCEPT ![c] = "add"]
          /\ UNCHANGED <<medicines, sales, args, medicine, saleId, result, clock, appVars, stock0, netVars>>

\* Step 5: const saleId = await db.sales.add({...})
createSale_add(c) ==
    /\ pc[c] = "add"
    /\ tx[c].active
    /\ \/ Abort(c, StorageError)
       \/ /\ tx' = [tx EXCEPT ![c].sales =
                        Append(@, SaleRecord(Len(@) + 1, args[c].medicineId,
                                             medicine[c], args[c].quantity))]
          /\ saleId' = [saleId EXCEPT ![c] = Len(tx[c].sales) + 1]
          /\ pc' = [pc EXCEPT ![c] = "commit"]
          /\ UNCHANGED <<medicines, sales, args, medicine, result, clock, appVars, stock0, netVars>>

\* The body returned: the transaction commits both tables at once and createSale
\* returns { success: true, data: result }; a failed commit aborts.
TxCommit(c) ==
    /\ pc[c] = "commit"
    /\ tx[c].active
    /\ \/ Abort(c, StorageError)
       \/ /\ medicines' = tx[c].medicines
          /\ sales' = tx[c].sales
          /\ tx' = [tx EXCEPT ![c] = NoTx]
          /\ pc' = [pc EXCEPT ![c] = "done"]
          /\ result' = [result EXCEPT ![c] =
                          Success(SaleData(saleId[c], medicine[c], args[c].quantity))]
          /\ UNCHANGED <<args, medicine, saleId, clock, appVars, stock0, netVars>>

\* The caller has its result and may call again.
createSale_return(c) ==
    /\ pc[c] = "done"
    /\ pc' = [pc EXCEPT ![c] = "idle"]
    /\ args' = [args EXCEPT ![c] = NoArgs]
    /\ medicine' = [medicine EXCEPT ![c] = NoMedicine]
    /\ saleId' = [saleId EXCEPT ![c] = NULL]
    /\ result' = [result EXCEPT ![c] = NoResult]
    /\ UNCHANGED <<medicines, sales, tx, clock, appVars, stock0, netVars>>

\* (faulty variant: the sale records of the item are deleted with it)
deleteMedicineWithSales(id) ==
    /\ NoTxRunning
    /\ id \in DOMAIN medicines
    /\ medicines' = [i \in DOMAIN medicines \ {id} |-> medicines[i]]
    /\ sales' = LET Other(sale) == sale.medicineId # id IN SelectSeq(sales, Other)
    /\ UNCHANGED <<tx, pc, args, medicine, saleId, result, clock, appVars, stock0, netVars>>
\* export async function deleteMedicine(id): await db.medicines.delete(id), an
\* implicit transaction of its own, which waits for a running 'rw' transaction.
deleteMedicine(id) ==
    /\ NoTxRunning
    /\ id \in DOMAIN medicines
    /\ medicines' = [i \in DOMAIN medicines \ {id} |-> medicines[i]]
    /\ UNCHANGED <<sales, tx, pc, args, medicine, saleId, result, clock, appVars, stock0, netVars>>

\* ------------------------------------------------------------ embedded Spec
InitCallers ==
    /\ tx = [c \in Callers |-> NoTx]
    /\ pc = [c \in Callers |-> "idle"]
    /\ args = [c \in Callers |-> NoArgs]
    /\ medicine = [c \in Callers |-> NoMedicine]
    /\ saleId = [c \in Callers |-> NULL]
    /\ result = [c \in Callers |-> NoResult]
    /\ req = [c \in Callers |-> NoReq]
    /\ resp = [c \in Callers |-> NoResp]
    /\ effect = [c \in Callers |-> NoEffect]
    /\ selected = [c \in Callers |-> NoSelection]
    /\ edits = 0
    /\ dash = NoDash
    /\ snaps = {}
    /\ view = NoView
    /\ report = NoReport
    /\ auth = NoAuth
    /\ pos = NoPos
    /\ stockAdjustments = <<>>
    /\ adjustment = NoAdjustment
    /\ nextMedicineId = Max(MedIds) + 1

\* Item 1 with stock 0..MaxInitQty, alone or beside item 2 with one unit in stock.
InitialInventories ==
    {[i \in ids |-> [quantity |-> IF i = 1 THEN q ELSE 1, name |-> MedName(i),
                     price |-> MedPrice(i)]] :
        ids \in {{1}, {1, 2}}, q \in 0..MaxInitQty}

\* The state after construction: a stocked inventory and an empty ledger.
Init ==
    /\ medicines \in InitialInventories
    /\ stock0 = [i \in DOMAIN medicines |-> medicines[i].quantity]
    /\ sales = <<>>
    /\ now = 0
    /\ tz = 0
    /\ InitCallers
    /\ srvMedicines = <<>>
    /\ srvSales = <<>>
    /\ session = [c \in Callers |-> NULL]

Next ==
    \/ \E c \in Callers, id \in MedIds, q \in QtyArgs : createSale(c, id, q)
    \/ \E c \in Callers : TxBegin(c)
    \/ \E c \in Callers : createSale_get(c)
    \/ \E c \in Callers : createSale_update(c)
    \/ \E c \in Callers : createSale_add(c)
    \/ \E c \in Callers : TxCommit(c)
    \/ \E c \in Callers : createSale_return(c)
    \/ \E id \in MedIds : deleteMedicine(id)

Spec == Init /\ [][Next]_vars


\* =================================================== networked variant
\* Error messages of the networked paths.
Err(message) == [message |-> message, available |-> 0, requested |-> 0]
NotAuthenticatedError == Err("User not authenticated")   \* new Error('User not authenticated')
NullUserError == Err("Cannot read properties of null")   \* user.id with user === null
NetworkError == Err("Network error")                     \* the request or the response was lost
RpcError == Err("RPC error")                             \* the server answered with an error

\* What the server's tables look like after the process_sale procedure ran, and the
\* JSON it answers: { success, error } or { success, data }.  One transaction:
\* quantity >= 1, the item exists, the item's quantity, re-read in the transaction,
\* covers the request; then the decrement and the record, together.
process_sale(p_medicine_id, p_quantity, p_seller_id) ==
    IF p_quantity < 1
    THEN [medicines |-> srvMedicines, sales |-> srvSales,
          answer |-> Failure(Err("Invalid quantity"))]
    ELSE IF p_medicine_id \notin DOMAIN srvMedicines
    THEN [medicines |-> srvMedicines, sales |-> srvSales,
          answer |-> Failure(Err("Medicine not found"))]
    ELSE IF srvMedicines[p_medicine_id].quantity < p_quantity
    THEN [medicines |-> srvMedicines, sales |-> srvSales,
          answer |-> Failure([message |-> "Insufficient stock",
                              available |-> srvMedicines[p_medicine_id].quantity,
                              requested |-> p_quantity])]
    ELSE LET item == srvMedicines[p_medicine_id]
             total == item.selling_price * p_quantity
             left == item.quantity - p_quantity
             id == Len(srvSales) + 1
         IN  [medicines |-> [srvMedicines EXCEPT ![p_medicine_id].quantity = left],
              sales |-> Append(srvSales,
                          [id |-> id, medicine_id |-> p_medicine_id,
                           medicine_name |-> item.name, quantity_sold |-> p_quantity,
                           unit_price |-> item.selling_price, total_price |-> total,
                           seller_id |-> p_seller_id, sale_date |-> now]),
              answer |-> Success([saleId |-> id, medicineName |-> item.name,
                                  quantitySold |-> p_quantity, totalPrice |-> total,
                                  remainingStock |-> left])]

\* (faulty variant: the total multiplied by the quantity once more)
CustomSaleRowScaled(id, itemDetails, user) ==
    [id |-> id, medicine_id |-> NULL, medicine_name |-> itemDetails.name,
     quantity_sold |-> itemDetails.quantity, unit_price |-> NULL,
     total_price |-> itemDetails.totalPrice * itemDetails.quantity,
     seller_id |-> user, sale_date |-> now]
\* The row createCustomSale inserts: four columns, the others take their defaults
\* (no medicine_id, no unit_price, the server's clock).
CustomSaleRow(id, itemDetails, user) ==
    [id |-> id, medicine_id |-> NULL, medicine_name |-> itemDetails.name,
     quantity_sold |-> itemDetails.quantity, unit_price |-> NULL,
     total_price |-> itemDetails.totalPrice,
     seller_id |-> user, sale_date |-> now]

\* What createCustomSale returns from the inserted row.
CustomSaleData(row) ==
    [saleId |-> NULL, medicineName |-> row.medicine_name,
     quantitySold |-> row.quantity_sold, totalPrice |-> row.total_price,
     remainingStock |-> 0]

\* handleSale: totalPrice: parseFloat(customItem.price) * parseInt(customItem.quantity)
CustomTotal(price, quantity) == price * quantity

\* (faulty variant: the test of data.success inverted)
SaleOutcomeInverted(r) ==
    IF r.status = "error" THEN Failure(r.error)
    ELSE IF r.data.success THEN Failure(r.data.error)
    ELSE Success(r.data.data)
\* createSale after the rpc call: if (error) throw error; if (!data.success) throw
\* new Error(data.error); return { success: true, data: data.data }.
SaleOutcome(r) ==
    IF r.status = "error" THEN Failure(r.error)
    ELSE IF ~r.data.success THEN Failure(r.data.error)
    ELSE Success(r.data.data)

\* createCustomSale after the insert: if (error) throw error; return the row's
\* name, quantity and total.
CustomOutcome(r) ==
    IF r.status = "error" THEN Failure(r.error) ELSE r.data

\* What the step did to the server's tables, added to the call's record.
Effect(c) ==
    effect' = [effect EXCEPT ![c] =
                 [rows |-> @.rows \cup (DOMAIN srvSales' \ DOMAIN srvSales),
                  stock |-> @.stock \/ srvMedicines' # srvMedicines]]

NetCallsLeft ==
    Len(srvSales) + Cardinality({d \in Callers : pc[d] # "idle"}) < MaxSales

NetCalled(c, r) ==
    /\ pc[c] = "idle"
    /\ NetCallsLeft
    /\ pc' = [pc EXCEPT ![c] = "auth"]
    /\ req' = [req EXCEPT ![c] = r]
    /\ result' = [result EXCEPT ![c] = NoResult]
    /\ effect' = [effect EXCEPT ![c] = NoEffect]
    /\ UNCHANGED <<embVars, clock, srvMedicines, srvSales, session, resp>>

NetCall(c, r) ==
    /\ NetCalled(c, r)
    /\ UNCHANGED appVars

\* the requests of createSale and of createCustomSale
SaleReq(medicineId, quantity) ==
    [medicineId |-> medicineId, quantity |-> quantity,
     name |-> "", totalPrice |-> 0, op |-> "sale"]
CustomReq(name, price, quantity) ==
    [medicineId |-> NULL, quantity |-> quantity, name |-> name,
     totalPrice |-> CustomTotal(price, quantity), op |-> "custom"]

\* export async function createSale(medicineId, quantity), networked
rpcCreateSale(c, medicineId, quantity) ==
    NetCall(c, SaleReq(medicineId, quantity))

\* export async function createCustomSale(itemDetails), as handleSale calls it
createCustomSale(c, name, price, quantity) ==
    NetCall(c, CustomReq(name, price, quantity))

\* The call ends here with { success: false, error }.
NetFail(c, error) ==
    /\ pc' = [pc EXCEPT ![c] = "done"]
    /\ result' = [result EXCEPT ![c] = Failure(error)]
    /\ resp' = [resp EXCEPT ![c] = NoResp]
    /\ UNCHANGED <<embVars, clock, appVars, srvMedicines, srvSales, session, req, effect>>

\* (faulty variant: the user is not looked at before the request is sent)
getUserUnchecked(c) ==
    /\ pc[c] = "auth"
    /\ pc' = [pc EXCEPT ![c] = "send"]
    /\ UNCHANGED <<embVars, clock, appVars, netVars, result>>
\* const { data: { user } } = await supabase.auth.getUser(): the session's user, or
\* null when there is none or the lookup failed.  createSale throws on a null user;
\* createCustomSale reads user.id and throws a TypeError.
getUser(c) ==
    /\ pc[c] = "auth"
    /\ \/ /\ req[c].op = "sale"
          /\ NetFail(c, NotAuthenticatedError)
       \/ /\ req[c].op = "custom"
          /\ NetFail(c, NullUserError)
       \/ /\ session[c] # NULL
          /\ pc' = [pc EXCEPT ![c] = "send"]
          /\ UNCHANGED <<embVars, clock, appVars, netVars, result>>

\* await supabase.rpc('process_sale', {...}): the request is lost, or the server
\* runs the procedure (which may raise and roll back) and answers.
rpc_process_sale(c) ==
    /\ pc[c] = "send"
    /\ req[c].op = "sale"
    /\ \/ NetFail(c, NetworkError)
       \/ /\ resp' = [resp EXCEPT ![c] = [status |-> "error", error |-> RpcError,
                                          data |-> NoResult]]
          /\ pc' = [pc EXCEPT ![c] = "await"]
          /\ UNCHANGED <<embVars, clock, appVars, srvMedicines, srvSales, session, req, effect,
                         result>>
       \/ LET out == process_sale(req[c].medicineId, req[c].quantity, session[c])
          IN  /\ srvMedicines' = out.medicines
              /\ srvSales' = out.sales
              /\ resp' = [resp EXCEPT ![c] = [status |-> "data", error |-> NoError,
                                              data |-> out.answer]]
              /\ Effect(c)
              /\ pc' = [pc EXCEPT ![c] = "await"]
              /\ UNCHANGED <<embVars, clock, appVars, session, req, result>>

\* await supabase.from('sales').insert([...]).select().single(): the request is
\* lost, or the server rejects the row, or it inserts it and answers with it.
insert_sale(c) ==
    /\ pc[c] = "send"
    /\ req[c].op = "custom"
    /\ \/ NetFail(c, NetworkError)
       \/ /\ resp' = [resp EXCEPT ![c] = [status |-> "error", error |-> RpcError,
                                          data |-> NoResult]]
          /\ pc' = [pc EXCEPT ![c] = "await"]
          /\ UNCHANGED <<embVars, clock, appVars, srvMedicines, srvSales, session, req, effect,
                         result>>
       \/ LET row == CustomSaleRow(Len(srvSales) + 1, req[c], session[c])
          IN  /\ srvSales' = Append(srvSales, row)
              /\ srvMedicines' = srvMedicines
              /\ resp' = [resp EXCEPT ![c] = [status |-> "data", error |-> NoError,
                                              data |-> Success(CustomSaleData(row))]]
              /\ Effect(c)
              /\ pc' = [pc EXCEPT ![c] = "await"]
              /\ UNCHANGED <<embVars, clock, appVars, session, req, result>>

\* (faulty variant: when the answer never arrived the request is sent again)
receiveRetrying(c) ==
    /\ pc[c] = "await"
    /\ \/ /\ pc' = [pc EXCEPT ![c] = "send"]
          /\ resp' = [resp EXCEPT ![c] = NoResp]
          /\ UNCHANGED <<embVars, clock, appVars, srvMedicines, srvSales, session, req, effect,
                         result>>
       \/ /\ result' = [result EXCEPT ![c] =
                          IF req[c].op = "sale" THEN SaleOutcome(resp[c])
                          ELSE CustomOutcome(resp[c])]
          /\ pc' = [pc EXCEPT ![c] = "done"]
          /\ resp' = [resp EXCEPT ![c] = NoResp]
          /\ UNCHANGED <<embVars, clock, appVars, srvMedicines, srvSales, session, req, effect>>
\* The await resumes: with the server's answer, or with an error when the answer
\* never arrived.
receive(c) ==
    /\ pc[c] = "await"
    /\ \/ NetFail(c, NetworkError)
       \/ /\ result' = [result EXCEPT ![c] =
                          IF req[c].op = "sale" THEN SaleOutcome(resp[c])
                          ELSE CustomOutcome(resp[c])]
          /\ pc' = [pc EXCEPT ![c] = "done"]
          /\ resp' = [resp EXCEPT ![c] = NoResp]
          /\ UNCHANGED <<embVars, clock, appVars, srvMedicines, srvSales, session, req, effect>>

\* The caller has its result and may call again.
net_return(c) ==
    /\ pc[c] = "done"
    /\ pc' = [pc EXCEPT ![c] = "idle"]
    /\ req' = [req EXCEPT ![c] = NoReq]
    /\ result' = [result EXCEPT ![c] = NoResult]
    /\ effect' = [effect EXCEPT ![c] = NoEffect]
    /\ UNCHANGED <<embVars, clock, appVars, srvMedicines, srvSales, session, resp>>

CustomNames == {"Consultation"}
CustomPrices == {10}

\* The server's inventory: item 1 with stock 0..MaxInitQty (no item 2), with
\* selling_price for price and purchase_price for what it cost.
InitialServerInventories ==
    {[i \in {1} |-> [quantity |-> q, name |-> MedName(i),
                     selling_price |-> MedPrice(i),
                     purchase_price |-> MedCost(i)]] : q \in 0..MaxInitQty}

\* The state after construction, networked: the first terminal is signed in, the
\* second is signed in or not; an empty ledger.
InitNet ==
    /\ srvMedicines \in InitialServerInventories
    /\ srvSales = <<>>
    /\ session \in {[c \in Callers |-> IF c = 1 THEN 1 ELSE u] : u \in {NULL, 2}}
    /\ medicines = <<>>
    /\ stock0 = <<>>
    /\ sales = <<>>
    /\ now = 0
    /\ tz = 0
    /\ InitCallers

NextNet ==
    \/ \E c \in Callers, id \in MedIds, q \in QtyArgs : rpcCreateSale(c, id, q)
    \/ \E c \in Callers, n \in CustomNames, p \in CustomPrices, q \in QtyArgs :
          createCustomSale(c, n, p, q)
    \/ \E c \in Callers : getUser(c)
    \/ \E c \in Callers : rpc_process_sale(c)
    \/ \E c \in Callers : insert_sale(c)
    \/ \E c \in Callers : receive(c)
    \/ \E c \in Callers : net_return(c)

SpecNet == InitNet /\ [][NextNet]_vars

\* ================================================ the last-unit race
\* Two callers have each called createSale(id, 1) on an item with one unit left:
\* both embedded calls are waiting for their transaction, or both networked calls
\* (from signed-in terminals) are about to look their user up.
InitRaceEmbedded(id) ==
    /\ medicines \in {inv \in InitialInventories :
                         id \in DOMAIN inv /\ inv[id].quantity = 1}
    /\ stock0 = [i \in DOMAIN medicines |-> medicines[i].quantity]
    /\ pc = [c \in Callers |-> "queued"]
    /\ args = [c \in Callers |-> [medicineId |-> id, quantity |-> 1]]
    /\ req = [c \in Callers |-> NoReq]
    /\ srvMedicines = <<>>
    /\ session = [c \in Callers |-> NULL]

InitRaceNetworked(id) ==
    /\ srvMedicines \in {inv \in InitialServerInventories :
                            id \in DOMAIN inv /\ inv[id].quantity = 1}
    /\ session = [c \in Callers |-> c]
    /\ pc = [c \in Callers |-> "auth"]
    /\ req = [c \in Callers |-> [medicineId |-> id, quantity |-> 1, name |-> "",
                                  totalPrice |-> 0, op |-> "sale"]]
    /\ args = [c \in Callers |-> NoArgs]
    /\ medicines = <<>>
    /\ stock0 = <<>>

InitRace ==
    /\ \E id \in MedIds : InitRaceEmbedded(id) \/ InitRaceNetworked(id)
    /\ sales = <<>>
    /\ srvSales = <<>>
    /\ now = 0
    /\ tz = 0
    /\ tx = [c \in Callers |-> NoTx]
    /\ medicine = [c \in Callers |-> NoMedicine]
    /\ saleId = [c \in Callers |-> NULL]
    /\ result = [c \in Callers |-> NoResult]
    /\ resp = [c \in Callers |-> NoResp]
    /\ effect = [c \in Callers |-> NoEffect]
    /\ selected = [c \in Callers |-> NoSelection]
    /\ edits = 0
    /\ dash = NoDash
    /\ snaps = {}
    /\ view = NoView
    /\ report = NoReport
    /\ auth = NoAuth
    /\ pos = NoPos
    /\ stockAdjustments = <<>>
    /\ adjustment = NoAdjustment
    /\ nextMedicineId = Max(MedIds) + 1

NextRace ==
    \/ \E c \in Callers : TxBegin(c)
    \/ \E c \in Callers : createSale_get(c)
    \/ \E c \in Callers : createSale_update(c)
    \/ \E c \in Callers : createSale_add(c)
    \/ \E c \in Callers : TxCommit(c)
    \/ \E c \in Callers : getUser(c)
    \/ \E c \in Callers : rpc_process_sale(c)
    \/ \E c \in Callers : receive(c)

SpecRace == InitRace /\ [][NextRace]_vars

\* ------------------------------------- inventory edits and the sale screen
MaxEdits == 1         \* updateMedicine calls made in one behaviour: at most MaxEdits

undefined == 0 - 98   \* the value of a property that is absent

\* what the edit form submits: a name, a price and a quantity -- a rename that
\* leaves one unit, a new price that leaves one unit, a restock
MedicineUpdates ==
    {[quantity |-> 1, name |-> "Aspirin Forte", price |-> 5],
     [quantity |-> 1, name |-> "Aspirin", price |-> 7],
     [quantity |-> MaxInitQty, name |-> "Aspirin", price |-> 5]}

\* what the quantity box of the sale screen can hold: parseInt(e.target.value) || 1
PosQuantities == {0 - 1} \cup 1..MaxArg

\* the terminal whose sale screen is modelled
Terminal == 1

\* updates.price ? ... : undefined  -- a number is truthy unless it is 0
Truthy(v) == v # 0

\* the changes object handed to db.medicines.update: the submitted fields, with
\* price and quantity parsed when truthy and undefined otherwise
MedicineChanges(updates) ==
    [name |-> updates.name,
     price |-> IF Truthy(updates.price) THEN updates.price ELSE undefined,
     quantity |-> IF Truthy(updates.quantity) THEN updates.quantity ELSE undefined]

\* (faulty variant: the edit is carried into the sale records of the item)
updateMedicineCascading(id, updates) ==
    /\ NoTxRunning
    /\ edits < MaxEdits
    /\ edits' = edits + 1
    /\ medicines' = IF id \in DOMAIN medicines
                    THEN [medicines EXCEPT ![id] = MedicineChanges(updates)]
                    ELSE medicines
    /\ sales' = [i \in DOMAIN sales |->
                    IF sales[i].medicineId = id
                    THEN [sales[i] EXCEPT !.medicineName = updates.name,
                                          !.unitPrice = updates.price]
                    ELSE sales[i]]
    /\ UNCHANGED <<tx, pc, args, medicine, saleId, result, clock, stock0, netVars, invVars,
                   selected, dash, snaps, pageVars>>
\* export async function updateMedicine(id, updates): await db.medicines.update(id,
\* changes), an implicit transaction of its own on the medicines table; updating
\* an id that is not stored changes nothing.
updateMedicine(id, updates) ==
    /\ NoTxRunning
    /\ edits < MaxEdits
    /\ edits' = edits + 1
    /\ medicines' = IF id \in DOMAIN medicines
                    THEN [medicines EXCEPT ![id] = MedicineChanges(updates)]
                    ELSE medicines
    /\ UNCHANGED <<sales, tx, pc, args, medicine, saleId, result, clock, stock0, netVars, invVars,
                   selected, dash, snaps, pageVars>>

\* The application runs on the Supabase wrapper: a terminal is signed in.
Networked == \E c \in Callers : session[c] # NULL

\* the item of the list useMedicines gives the sale screen: the row of the embedded
\* store, or the mapped row of the server, which has sellingPrice and no price
ListedMedicine(id) ==
    IF Networked
    THEN [id |-> id, name |-> srvMedicines[id].name, price |-> undefined,
          quantity |-> srvMedicines[id].quantity]
    ELSE [id |-> id, name |-> medicines[id].name, price |-> medicines[id].price,
          quantity |-> medicines[id].quantity]

\* const handleSelectMedicine = (medicine) => setSelectedMedicine(medicine): the
\* screen keeps the item object as it was listed.
handleSelectMedicine(c, id) ==
    /\ pc[c] = "idle"
    /\ id \in DOMAIN (IF Networked THEN srvMedicines ELSE medicines)
    /\ selected' = [selected EXCEPT ![c] = ListedMedicine(id)]
    /\ UNCHANGED <<medicines, sales, tx, pc, args, medicine, saleId, result, clock, stock0,
                   netVars, invVars, edits, dash, snaps, pageVars>>

\* onClick={() => setMode('inventory')} and onClick={() => setMode('custom')}
setMode(mode) ==
    /\ pos.mode # mode
    /\ pos' = [pos EXCEPT !.mode = mode]
    /\ UNCHANGED <<medicines, sales, tx, pc, args, medicine, saleId, result, clock, stock0,
                   netVars, invVars, selected, edits, dash, snaps, view, report, auth>>

\* the boxes of the custom sale: setCustomItem({ ...customItem, ... })
setCustomItem(item) ==
    /\ pos.mode = "custom"
    /\ pos.customItem # item
    /\ pos' = [pos EXCEPT !.customItem = item]
    /\ UNCHANGED <<medicines, sales, tx, pc, args, medicine, saleId, result, clock, stock0,
                   netVars, invVars, selected, edits, dash, snaps, view, report, auth>>

\* disabled={isProcessing || (mode === 'inventory' && !selectedMedicine)}
ConfirmEnabled(c) ==
    ~(pos.isProcessing \/ (pos.mode = "inventory" /\ selected[c] = NoSelection))

\* handleSale up to its await, from the Confirm button: setIsProcessing(true), then
\* the call of createSale or createCustomSale of the store in use.  An early return
\* and a throw (the embedded store exports no createCustomSale) reach the finally
\* block in the same run, which leaves isProcessing false.  (history: an invocation
\* made while the terminal's call is still under way is only counted.)
handleSale(c, quantity) ==
    /\ ConfirmEnabled(c)
    /\ UNCHANGED <<selected, edits, dash, snaps, view, report, auth, invVars>>
    /\ LET processing == [pos EXCEPT !.isProcessing = TRUE, !.running = @ + 1]
           returns == /\ pos' = [pos EXCEPT !.isProcessing = FALSE]
                      /\ UNCHANGED <<medicines, sales, tx, pc, args, medicine, saleId,
                                     result, clock, stock0, netVars>>
       IN  IF pc[c] # "idle"
           THEN /\ pos' = processing
                /\ UNCHANGED <<medicines, sales, tx, pc, args, medicine, saleId,
                               result, clock, stock0, netVars>>
           ELSE IF pos.mode = "inventory"
           THEN IF selected[c] = NoSelection THEN returns
                ELSE /\ pos' = processing
                     /\ IF Networked
                        THEN NetCalled(c, SaleReq(selected[c].id, quantity))
                        ELSE createSale_called(c, selected[c].id, quantity)
           ELSE IF pos.customItem.name = "" \/ ~Truthy(pos.customItem.price) THEN returns
                ELSE IF Networked
                THEN /\ pos' = processing
                     /\ NetCalled(c, CustomReq(pos.customItem.name, pos.customItem.price,
                                               pos.customItem.quantity))
                ELSE returns

\* (faulty variant: isProcessing is reset after a successful sale only)
handleSale_doneOnSuccess(c) ==
    /\ pc[c] = "done"
    /\ selected' = [selected EXCEPT ![c] =
                       IF result[c].success THEN NoSelection ELSE @]
    /\ pos' = [pos EXCEPT !.customItem = IF result[c].success THEN NoCustomItem ELSE @,
                          !.isProcessing = IF result[c].success THEN FALSE ELSE @,
                          !.running = @ - 1]
    /\ pc' = [pc EXCEPT ![c] = "idle"]
    /\ result' = [result EXCEPT ![c] = NoResult]
    /\ IF Networked
       THEN /\ req' = [req EXCEPT ![c] = NoReq]
            /\ effect' = [effect EXCEPT ![c] = NoEffect]
            /\ UNCHANGED <<embVars, srvMedicines, srvSales, session, resp>>
       ELSE /\ args' = [args EXCEPT ![c] = NoArgs]
            /\ medicine' = [medicine EXCEPT ![c] = NoMedicine]
            /\ saleId' = [saleId EXCEPT ![c] = NULL]
            /\ UNCHANGED <<medicines, sales, tx, stock0, netVars>>
    /\ UNCHANGED <<clock, invVars, edits, dash, snaps, view, report, auth>>
\* handleSale after the await: a successful sale resets the selection and the
\* custom item; finally setIsProcessing(false).
handleSale_done(c) ==
    /\ pc[c] = "done"
    /\ selected' = [selected EXCEPT ![c] =
                       IF result[c].success THEN NoSelection ELSE @]
    /\ pos' = [pos EXCEPT !.customItem = IF result[c].success THEN NoCustomItem ELSE @,
                          !.isProcessing = FALSE,
                          !.running = @ - 1]
    /\ pc' = [pc EXCEPT ![c] = "idle"]
    /\ result' = [result EXCEPT ![c] = NoResult]
    /\ IF Networked
       THEN /\ req' = [req EXCEPT ![c] = NoReq]
            /\ effect' = [effect EXCEPT ![c] = NoEffect]
            /\ UNCHANGED <<embVars, srvMedicines, srvSales, session, resp>>
       ELSE /\ args' = [args EXCEPT ![c] = NoArgs]
            /\ medicine' = [medicine EXCEPT ![c] = NoMedicine]
            /\ saleId' = [saleId EXCEPT ![c] = NULL]
            /\ UNCHANGED <<medicines, sales, tx, stock0, netVars>>
    /\ UNCHANGED <<clock, invVars, edits, dash, snaps, view, report, auth>>

\* One sale screen selling from the embedded store while the inventory is edited.
NextEdit ==
    \/ \E id \in MedIds : handleSelectMedicine(Terminal, id)
    \/ \E q \in PosQuantities : handleSale(Terminal, q)
    \/ TxBegin(Terminal)
    \/ createSale_get(Terminal)
    \/ createSale_update(Terminal)
    \/ createSale_add(Terminal)
    \/ TxCommit(Terminal)
    \/ handleSale_done(Terminal)
    \/ \E id \in MedIds, updates \in MedicineUpdates : updateMedicine(id, updates)
    \/ \E id \in MedIds : deleteMedicine(id)

SpecEdit == Init /\ [][NextEdit]_vars

\* ------------------------------------------------------------- queries
DayLength == 2        \* a day of the wall clock is DayLength ticks long

LowStockThreshold == 5        \* getLowStockMedicines(threshold = 5), getLowStockMedicines(5)
NetLowStockThreshold == 10    \* medicines.filter(m => m.quantity < 10)

\* today.setHours(0, 0, 0, 0) and end.setHours(23, 59, 59, 999): the first and
\* the last instant of the local calendar day the instant t falls in
StartOfDay(t) == t - ((t + tz) % DayLength)
EndOfDay(t) == StartOfDay(t) + DayLength - 1

\* new Date('YYYY-MM-DD'): a date-only string is taken as midnight UTC of day d
ParseDate(d) == d * DayLength

RECURSIVE ToArray(_)
\* table.toArray(): the rows in primary-key order, each with its id
ToArray(table) ==
    IF DOMAIN table = {} THEN <<>>
    ELSE LET i == Min(DOMAIN table)
         IN  <<[id |-> i, name |-> table[i].name, price |-> table[i].price,
                quantity |-> table[i].quantity]>>
             \o ToArray([j \in DOMAIN table \ {i} |-> table[j]])

\* the position of a name in the order of names
NameRank(name) ==
    CASE name = "Aspirin" -> 1
      [] name = "Aspirin Forte" -> 2
      [] name = "Consultation" -> 3
      [] name = "Panadol" -> 4
      [] OTHER -> 5

RECURSIVE OrderByName(_)
\* .from('medicines').select(...).order('name') and the mapping to camelCase
OrderByName(table) ==
    IF DOMAIN table = {} THEN <<>>
    ELSE LET i == CHOOSE k \in DOMAIN table :
                      \A j \in DOMAIN table :
                          \/ NameRank(table[k].name) < NameRank(table[j].name)
                          \/ /\ NameRank(table[k].name) = NameRank(table[j].name)
                             /\ k <= j
         IN  <<[id |-> i, name |-> table[i].name,
                purchasePrice |-> table[i].purchase_price,
                sellingPrice |-> table[i].selling_price,
                quantity |-> table[i].quantity]>>
             \o OrderByName([j \in DOMAIN table \ {i} |-> table[j]])

RECURSIVE Reverse(_)
Reverse(seq) == IF seq = <<>> THEN <<>> ELSE Append(Reverse(Tail(seq)), Head(seq))

RECURSIVE Sum(_)
\* reduce((sum, x) => sum + x, 0)
Sum(seq) == IF seq = <<>> THEN 0 ELSE Head(seq) + Sum(Tail(seq))

\* name.toLowerCase().includes(query.toLowerCase()), for the queries of SearchQueries
Includes(name, query) ==
    \/ query = ""
    \/ query = "asp" /\ name \in {"Aspirin", "Aspirin Forte"}
    \/ query = "pan" /\ name = "Panadol"
SearchQueries == {"asp"}

\* db.medicines.filter(med => med.quantity < threshold).toArray()
LowStockOf(meds, threshold) ==
    LET Low(med) == med.quantity < threshold IN SelectSeq(meds, Low)

\* db.sales.filter(sale => new Date(sale.saleDate) >= today).toArray()
TodaysSalesOf(ledger, t) ==
    LET Today(sale) == sale.saleDate >= StartOfDay(t) IN SelectSeq(ledger, Today)

\* db.sales.filter(sale => saleDate >= start && saleDate <= end).toArray()
SalesByDateRangeOf(ledger, startDate, endDate) ==
    LET InRange(sale) == /\ sale.saleDate >= StartOfDay(ParseDate(startDate))
                         /\ sale.saleDate <= EndOfDay(ParseDate(endDate))
    IN  SelectSeq(ledger, InRange)

\* the rows of the server's sales table as the wrapper maps them
MappedSales(rows) ==
    [i \in DOMAIN rows |->
        [id |-> rows[i].id, medicineName |-> rows[i].medicine_name,
         quantitySold |-> rows[i].quantity_sold, totalPrice |-> rows[i].total_price,
         saleDate |-> rows[i].sale_date]]

\* the data object getDashboardStats builds from what it has read (embedded)
DashboardStats(meds, todaysSales, lowStockMeds) ==
    [totalMedicines |-> Len(meds),
     totalItems |-> Sum([i \in DOMAIN meds |-> meds[i].quantity]),
     totalStockValue |-> Sum([i \in DOMAIN meds |-> meds[i].price * meds[i].quantity]),
     todaysSalesCount |-> Len(todaysSales),
     todaysRevenue |-> Sum([i \in DOMAIN todaysSales |-> todaysSales[i].totalPrice]),
     lowStockCount |-> Len(lowStockMeds),
     lowStockItems |-> lowStockMeds]

\* the same on the Supabase wrapper: the stock value is the value at purchase
\* price, the potential revenue the value at selling price, and low stock is
\* taken from the medicines that were read
NetDashboardStats(meds, todaysSales) ==
    [totalMedicines |-> Len(meds),
     totalItems |-> Sum([i \in DOMAIN meds |-> meds[i].quantity]),
     totalStockValue |-> Sum([i \in DOMAIN meds |-> meds[i].purchasePrice * meds[i].quantity]),
     potentialRevenue |-> Sum([i \in DOMAIN meds |-> meds[i].sellingPrice * meds[i].quantity]),
     todaysSalesCount |-> Len(todaysSales),
     todaysRevenue |-> Sum([i \in DOMAIN todaysSales |-> todaysSales[i].totalPrice]),
     lowStockCount |-> Len(LowStockOf(meds, NetLowStockThreshold)),
     lowStockItems |-> LowStockOf(meds, NetLowStockThreshold)]

\* The committed tables as a read finds them.
Committed ==
    IF Networked THEN [medicines |-> srvMedicines, sales |-> srvSales]
    ELSE [medicines |-> medicines, sales |-> sales]

\* What one read of both tables at once would have made the figures.
StatsOf(snap) ==
    IF Networked
    THEN NetDashboardStats(OrderByName(snap.medicines),
                           TodaysSalesOf(MappedSales(snap.sales), now))
    ELSE DashboardStats(ToArray(snap.medicines), TodaysSalesOf(snap.sales, now),
                        LowStockOf(ToArray(snap.medicines), LowStockThreshold))

\* One step of getDashboardStats: its position and what it holds change, and the
\* tables it found are remembered.
DashStep(next) ==
    /\ dash' = next
    /\ snaps' = snaps \cup {Committed}
    /\ UNCHANGED <<medicines, sales, tx, pc, args, medicine, saleId, result, clock, stock0,
                   netVars, invVars, selected, edits, pageVars>>

\* export async function getDashboardStats() (embedded): the call is made.
getDashboardStats ==
    /\ ~Networked
    /\ dash.pc = "idle"
    /\ dash' = [NoDash EXCEPT !.pc = "medicines"]
    /\ snaps' = {}
    /\ UNCHANGED <<medicines, sales, tx, pc, args, medicine, saleId, result, clock, stock0,
                   netVars, invVars, selected, edits, pageVars>>

\* const medicines = await db.medicines.toArray(): a read transaction of its own,
\* which waits for a running 'rw' transaction on the table.
\* The read throws here, and the catch block of getDashboardStats returns
\* { success: false, error }.
getDashboardStats_medicines ==
    /\ dash.pc = "medicines"
    /\ NoTxRunning
    /\ \/ DashStep([dash EXCEPT !.medicines = ToArray(medicines), !.pc = "todaysSales"])
       \/ DashStep([dash EXCEPT !.pc = "done"])

\* const todaysSales = await getTodaysSales(): another read transaction.  When
\* it fails getTodaysSales returns { success: false, data: [] }, and data is used.
getDashboardStats_todaysSales ==
    /\ dash.pc = "todaysSales"
    /\ NoTxRunning
    /\ \/ DashStep([dash EXCEPT !.todaysSales = TodaysSalesOf(sales, now),
                                !.pc = "lowStock"])
       \/ DashStep([dash EXCEPT !.todaysSales = <<>>, !.swallowed = TRUE,
                                !.pc = "lowStock"])

\* const lowStockMeds = await getLowStockMedicines(5): a third read transaction,
\* with { success: false, data: [] } when it fails; then the figures are computed
\* and returned.
getDashboardStats_lowStock ==
    /\ dash.pc = "lowStock"
    /\ NoTxRunning
    /\ \E read \in {TRUE, FALSE} :
          LET low == IF read THEN LowStockOf(ToArray(medicines), LowStockThreshold)
                     ELSE <<>>
          IN  DashStep([dash EXCEPT !.lowStockMeds = low,
                                    !.result = DashboardStats(dash.medicines,
                                                              dash.todaysSales, low),
                                    !.swallowed = @ \/ ~read,
                                    !.success = TRUE,
                                    !.pc = "done"])

\* export async function getDashboardStats() (Supabase wrapper): Promise.all sends
\* getAllMedicines() and getTodaysSales() as two requests at once.
netGetDashboardStats ==
    /\ Networked
    /\ dash.pc = "idle"
    /\ dash' = [NoDash EXCEPT !.pc = "both"]
    /\ snaps' = {}
    /\ UNCHANGED <<medicines, sales, tx, pc, args, medicine, saleId, result, clock, stock0,
                   netVars, invVars, selected, edits, pageVars>>

\* The server answers getAllMedicines(), or the request fails and
\* getAllMedicines returns { success: false, data: [] }: medicinesData.data || [].
netGetDashboardStats_medicines ==
    /\ dash.pc \in {"both", "medicinesLeft"}
    /\ LET next == IF dash.pc = "both" THEN "salesLeft" ELSE "all"
       IN  \/ DashStep([dash EXCEPT !.medicines = OrderByName(srvMedicines),
                                    !.pc = next])
           \/ DashStep([dash EXCEPT !.medicines = <<>>, !.swallowed = TRUE,
                                    !.pc = next])

\* The server answers getTodaysSales(), or the request fails: salesData.data || [].
netGetDashboardStats_todaysSales ==
    /\ dash.pc \in {"both", "salesLeft"}
    /\ LET next == IF dash.pc = "both" THEN "medicinesLeft" ELSE "all"
       IN  \/ DashStep([dash EXCEPT !.todaysSales =
                                        TodaysSalesOf(MappedSales(srvSales), now),
                                    !.pc = next])
           \/ DashStep([dash EXCEPT !.todaysSales = <<>>, !.swallowed = TRUE,
                                    !.pc = next])

\* Both answers are in: the figures are computed and returned.
netGetDashboardStats_compute ==
    /\ dash.pc = "all"
    /\ dash' = [dash EXCEPT !.lowStockMeds = LowStockOf(dash.medicines, NetLowStockThreshold),
                            !.result = NetDashboardStats(dash.medicines, dash.todaysSales),
                            !.success = TRUE,
                            !.pc = "done"]
    /\ UNCHANGED <<medicines, sales, tx, pc, args, medicine, saleId, result, clock, stock0,
                   netVars, invVars, selected, edits, snaps, pageVars>>

\* The dashboard has its figures and may ask again.
getDashboardStats_return ==
    /\ dash.pc = "done"
    /\ dash' = NoDash
    /\ snaps' = {}
    /\ UNCHANGED <<medicines, sales, tx, pc, args, medicine, saleId, result, clock, stock0,
                   netVars, invVars, selected, edits, pageVars>>

\* The state after construction, of the embedded store or of the Supabase variant.
InitEither == Init \/ InitNet

\* The terminal's createSale calls on the embedded store, with quantities qs.
EmbeddedSales(qs) ==
    \/ \E id \in MedIds, q \in qs : createSale(Terminal, id, q)
    \/ TxBegin(Terminal)
    \/ createSale_get(Terminal)
    \/ createSale_update(Terminal)
    \/ createSale_add(Terminal)
    \/ TxCommit(Terminal)
    \/ createSale_return(Terminal)

\* The terminal's createSale and createCustomSale calls on the Supabase wrapper.
NetworkedSales(qs) ==
    \/ \E id \in MedIds, q \in qs : rpcCreateSale(Terminal, id, q)
    \/ \E n \in CustomNames, p \in CustomPrices, q \in qs :
          createCustomSale(Terminal, n, p, q)
    \/ getUser(Terminal)
    \/ rpc_process_sale(Terminal)
    \/ insert_sale(Terminal)
    \/ receive(Terminal)
    \/ net_return(Terminal)

EmbeddedDashboard ==
    \/ getDashboardStats
    \/ getDashboardStats_medicines
    \/ getDashboardStats_todaysSales
    \/ getDashboardStats_lowStock
    \/ getDashboardStats_return

NetworkedDashboard ==
    \/ netGetDashboardStats
    \/ netGetDashboardStats_medicines
    \/ netGetDashboardStats_todaysSales
    \/ netGetDashboardStats_compute
    \/ getDashboardStats_return

\* One terminal sells while the dashboard asks for its figures, on either store.
NextDash ==
    \/ ~Networked /\ (EmbeddedSales(QtyArgs) \/ EmbeddedDashboard)
    \/ Networked /\ (NetworkedSales(QtyArgs) \/ NetworkedDashboard)

SpecDash == InitEither /\ [][NextDash]_vars

\* --------------------------------------------- the other operations
NaN == 0 - 99         \* the value of 0 / 0

\* what the add form submits
NewMedicines == {[quantity |-> 1, name |-> "Ibuprofen", price |-> 4]}

\* what the edit form of the Supabase variant submits: a rename, a new price
NetMedicineUpdates ==
    {[quantity |-> 1, name |-> "Aspirin Forte", sellingPrice |-> 5],
     [quantity |-> MaxInitQty, name |-> "Aspirin", sellingPrice |-> 7]}

\* the adjustments the stock screen submits
AdjustmentTypes == {"return", "damage"}
AdjustmentQuantities == {1}

\* the start and end dates a report asks for
QueryDates == {0}

\* the thresholds getLowStockMedicines is called with
Thresholds == {LowStockThreshold}

\* The step of a query: what it returns, and every table as it was.
Answer(query, arguments, success, data) ==
    /\ view' = [query |-> query, args |-> arguments, success |-> success, data |-> data]
    /\ UNCHANGED <<report, auth, pos>>
    /\ UNCHANGED <<medicines, sales, tx, pc, args, medicine, saleId, result, clock, stock0,
                   netVars, invVars, selected, edits, dash, snaps>>

\* A query read of the embedded store: the read fails and the catch block
\* returns { success: false, data: [] }, or it returns the rows.
Read(query, arguments, data) ==
    /\ NoTxRunning
    /\ \/ Answer(query, arguments, FALSE, <<>>)
       \/ Answer(query, arguments, TRUE, data)

\* export async function getAllMedicines(): db.medicines.toArray()
getAllMedicines == Read("getAllMedicines", <<>>, ToArray(medicines))

\* export async function searchMedicines(query)
searchMedicines(query) ==
    LET Matches(med) == Includes(med.name, query)
    IN  Read("searchMedicines", <<query>>, SelectSeq(ToArray(medicines), Matches))

\* export async function getLowStockMedicines(threshold = 5)
getLowStockMedicines(threshold) ==
    Read("getLowStockMedicines", <<threshold>>, LowStockOf(ToArray(medicines), threshold))

\* (faulty variant: the table itself is put in reverse order)
toArray(table) == table
\* db.sales.reverse().toArray(): the records from the highest primary key down
reverse_toArray(table) == Reverse(table)

getSalesHistoryInPlace ==
    /\ NoTxRunning
    /\ sales' = Reverse(sales)
    /\ view' = [args |-> <<>>, success |-> TRUE, data |-> Reverse(sales),
                query |-> "getSalesHistory"]
    /\ UNCHANGED <<report, auth, pos>>
    /\ UNCHANGED <<medicines, tx, pc, args, medicine, saleId, result, clock, stock0,
                   netVars, invVars, selected, edits, dash, snaps>>
\* export async function getSalesHistory(): db.sales.reverse().toArray()
getSalesHistory == Read("getSalesHistory", <<>>, reverse_toArray(sales))

\* export async function getTodaysSales()
getTodaysSales == Read("getTodaysSales", <<>>, TodaysSalesOf(sales, now))

\* export async function getSalesByDateRange(startDate, endDate)
getSalesByDateRange(startDate, endDate) ==
    Read("getSalesByDateRange", <<startDate, endDate>>, SalesByDateRangeOf(sales, startDate, endDate))

\* the orders in which rows can come back under .order('sale_date', { ascending:
\* false }): newest first, rows of the same date in any order
OrderBySaleDateDesc(rows) ==
    LET n == Len(rows)
        orders == {f \in [1..n -> 1..n] :
                      /\ \A i, j \in 1..n : i # j => f[i] # f[j]
                      /\ \A i, j \in 1..n :
                            i < j => rows[f[i]].sale_date >= rows[f[j]].sale_date}
    IN  {[i \in 1..n |-> rows[f[i]]] : f \in orders}

\* getSalesHistory's mapping: the row with unitPrice: s.total_price / s.quantity_sold
WithUnitPrice(rows) ==
    [i \in DOMAIN rows |->
        [id |-> rows[i].id, medicineName |-> rows[i].medicine_name,
         quantitySold |-> rows[i].quantity_sold, totalPrice |-> rows[i].total_price,
         saleDate |-> rows[i].sale_date,
         unitPrice |-> IF rows[i].quantity_sold = 0 THEN NaN
                       ELSE rows[i].total_price \div rows[i].quantity_sold]]

\* A query of the server: the request fails and the catch block returns
\* { success: false, data: [] }, or the server answers with the rows.
Select(query, arguments, data) ==
    \/ Answer(query, arguments, FALSE, <<>>)
    \/ Answer(query, arguments, TRUE, data)

\* getAllMedicines, searchMedicines, getSalesHistory, getTodaysSales and
\* getSalesByDateRange of the Supabase wrapper
netGetAllMedicines == Select("getAllMedicines", <<>>, OrderByName(srvMedicines))

netSearchMedicines(query) ==
    LET Matches(med) == Includes(med.name, query)
    IN  Select("searchMedicines", <<query>>, SelectSeq(OrderByName(srvMedicines), Matches))

netGetSalesHistory ==
    \E rows \in OrderBySaleDateDesc(srvSales) :
        Select("getSalesHistory", <<>>, WithUnitPrice(rows))

netGetTodaysSales == Select("getTodaysSales", <<>>, TodaysSalesOf(MappedSales(srvSales), now))

netGetSalesByDateRange(startDate, endDate) ==
    \E rows \in OrderBySaleDateDesc(srvSales) :
        Select("getSalesByDateRange", <<startDate, endDate>>,
               SalesByDateRangeOf(MappedSales(rows), startDate, endDate))

\* The caller has the rows.
query_return ==
    /\ view # NoView
    /\ view' = NoView
    /\ UNCHANGED <<report, auth, pos>>
    /\ UNCHANGED <<medicines, sales, tx, pc, args, medicine, saleId, result, clock, stock0,
                   netVars, invVars, selected, edits, dash, snaps>>

\* export async function addMedicine(medicine): db.medicines.add({...}), the key
\* taken from the table's key generator
addMedicine(med) ==
    /\ NoTxRunning
    /\ edits < MaxEdits
    /\ edits' = edits + 1
    /\ medicines' = [i \in DOMAIN medicines \cup {nextMedicineId} |->
                        IF i = nextMedicineId
                        THEN [name |-> med.name, price |-> med.price,
                              quantity |-> med.quantity]
                        ELSE medicines[i]]
    /\ nextMedicineId' = nextMedicineId + 1
    /\ UNCHANGED <<sales, tx, pc, args, medicine, saleId, result, clock, stock0, netVars,
                   stockAdjustments, adjustment, selected, dash, snaps, pageVars>>

\* An edit of the server's medicines table: the tables afterwards, or the request
\* failed and nothing changed.
ServerEdit(meds, ledger) ==
    /\ edits < MaxEdits
    /\ edits' = edits + 1
    /\ \/ srvMedicines' = meds /\ srvSales' = ledger
       \/ UNCHANGED <<srvMedicines, srvSales>>
    /\ UNCHANGED <<embVars, pc, result, clock, session, req, resp, effect, selected, dash,
                   snaps, pageVars, stockAdjustments, adjustment>>

\* export async function addMedicine(medicine), Supabase wrapper: one insert
netAddMedicine(med) ==
    /\ ServerEdit([i \in DOMAIN srvMedicines \cup {nextMedicineId} |->
                      IF i = nextMedicineId
                      THEN [name |-> med.name, purchase_price |-> 0,
                            selling_price |-> med.price,
                            quantity |-> med.quantity]
                      ELSE srvMedicines[i]],
                  srvSales)
    /\ nextMedicineId' = IF srvMedicines' = srvMedicines THEN nextMedicineId
                         ELSE nextMedicineId + 1

\* export async function updateMedicine(id, updates), Supabase wrapper: only the
\* truthy fields are sent
netUpdateMedicine(id, updates) ==
    /\ ServerEdit(IF id \in DOMAIN srvMedicines
                  THEN [srvMedicines EXCEPT ![id] =
                          [name |-> IF updates.name # "" THEN updates.name ELSE @.name,
                           purchase_price |-> @.purchase_price,
                           selling_price |-> IF Truthy(updates.sellingPrice)
                                             THEN updates.sellingPrice
                                             ELSE @.selling_price,
                           quantity |-> IF Truthy(updates.quantity)
                                        THEN updates.quantity ELSE @.quantity]]
                  ELSE srvMedicines,
                  srvSales)
    /\ UNCHANGED nextMedicineId

\* What deleting a medicines row does to the server's sales table: nothing (the
\* ledger keeps the rows of an item that is gone).
SalesAfterDelete(id) == srvSales

\* export async function deleteMedicine(id), Supabase wrapper
netDeleteMedicine(id) ==
    /\ id \in DOMAIN srvMedicines
    /\ ServerEdit([i \in DOMAIN srvMedicines \ {id} |-> srvMedicines[i]],
                  SalesAfterDelete(id))
    /\ UNCHANGED nextMedicineId

\* let quantityChange = ...: a return adds to the stock, damage and correction
\* take from it
QuantityChange(type, quantity) ==
    IF type = "return" THEN quantity
    ELSE IF type \in {"damage", "correction"} THEN 0 - quantity
    ELSE 0

\* What the update_stock procedure leaves in the server's medicines table: the
\* item's quantity changed by p_quantity_change.
update_stock(p_medicine_id, p_quantity_change) ==
    IF p_medicine_id \in DOMAIN srvMedicines
    THEN [srvMedicines EXCEPT ![p_medicine_id].quantity = @ + p_quantity_change]
    ELSE srvMedicines

\* One step of addStockAdjustment.
AdjustStep(next, rows, meds) ==
    /\ adjustment' = next
    /\ stockAdjustments' = rows
    /\ srvMedicines' = meds
    /\ UNCHANGED <<embVars, pc, result, clock, srvSales, session, req, resp, effect,
                   selected, dash, snaps, pageVars, nextMedicineId>>

\* export async function addStockAdjustment(adjustment): the call is made.
addStockAdjustment(medicineId, type, quantity) ==
    /\ adjustment.pc = "idle"
    /\ edits < MaxEdits
    /\ edits' = edits + 1
    /\ AdjustStep([pc |-> "auth", medicineId |-> medicineId, type |-> type,
                   quantity |-> quantity], stockAdjustments, srvMedicines)

\* const { data: { user } } = await supabase.auth.getUser(); a null user makes
\* user.id throw, and the call returns { success: false }.
addStockAdjustment_getUser ==
    /\ adjustment.pc = "auth"
    /\ UNCHANGED edits
    /\ \/ AdjustStep(NoAdjustment, stockAdjustments, srvMedicines)
       \/ AdjustStep([adjustment EXCEPT !.pc = "insert"], stockAdjustments, srvMedicines)

\* await supabase.from('stock_adjustments').insert([...]): an error returns
\* { success: false }; with no quantity change the call returns { success: true }.
addStockAdjustment_insert ==
    /\ adjustment.pc = "insert"
    /\ UNCHANGED edits
    /\ \/ AdjustStep(NoAdjustment, stockAdjustments, srvMedicines)
       \/ AdjustStep(IF QuantityChange(adjustment.type, adjustment.quantity) # 0
                     THEN [adjustment EXCEPT !.pc = "stock"] ELSE NoAdjustment,
                     Append(stockAdjustments,
                            [quantity |-> adjustment.quantity,
                             medicine_id |-> adjustment.medicineId,
                             adjustment_type |-> adjustment.type,
                             adjusted_by |-> session[Terminal]]),
                     srvMedicines)

\* await supabase.rpc('update_stock', {...}): the procedure runs, or the call
\* fails; stockError is not looked at, and the call returns { success: true }.
addStockAdjustment_update_stock ==
    /\ adjustment.pc = "stock"
    /\ UNCHANGED edits
    /\ \/ AdjustStep(NoAdjustment, stockAdjustments, srvMedicines)
       \/ AdjustStep(NoAdjustment, stockAdjustments,
                     update_stock(adjustment.medicineId,
                                  QuantityChange(adjustment.type, adjustment.quantity)))

\* No query result is waiting to be taken.
Quiet == view = NoView

\* the quantity of the sales that go on beside the back office and the reports
UnitQuantities == {1}

EmbeddedQueries ==
    \/ getAllMedicines
    \/ \E query \in SearchQueries : searchMedicines(query)
    \/ \E threshold \in Thresholds : getLowStockMedicines(threshold)
    \/ getSalesHistory
    \/ getTodaysSales
    \/ \E startDate \in QueryDates, endDate \in QueryDates :
          getSalesByDateRange(startDate, endDate)

NetworkedQueries ==
    \/ netGetAllMedicines
    \/ \E query \in SearchQueries : netSearchMedicines(query)
    \/ netGetSalesHistory
    \/ netGetTodaysSales
    \/ \E startDate \in QueryDates, endDate \in QueryDates :
          netGetSalesByDateRange(startDate, endDate)

EmbeddedEdits ==
    \/ \E med \in NewMedicines : addMedicine(med)
    \/ \E id \in MedIds, updates \in MedicineUpdates : updateMedicine(id, updates)
    \/ \E id \in MedIds : deleteMedicine(id)

NetworkedEdits ==
    \/ \E med \in NewMedicines : netAddMedicine(med)
    \/ \E id \in MedIds, updates \in NetMedicineUpdates : netUpdateMedicine(id, updates)
    \/ \E id \in MedIds : netDeleteMedicine(id)
    \/ \E id \in MedIds, type \in AdjustmentTypes, q \in AdjustmentQuantities :
          addStockAdjustment(id, type, q)
    \/ addStockAdjustment_getUser
    \/ addStockAdjustment_insert
    \/ addStockAdjustment_update_stock

\* One terminal sells single units while the back office edits the inventory and
\* reports are asked for, on either store.  (The dashboard's reads are those of
\* getAllMedicines, getTodaysSales and getLowStockMedicines.)
NextOps ==
    \/ Quiet /\ ~Networked /\ (\/ EmbeddedSales(UnitQuantities)
                               \/ EmbeddedEdits
                               \/ EmbeddedQueries)
    \/ Quiet /\ Networked /\ (\/ NetworkedSales(UnitQuantities)
                              \/ NetworkedEdits
                              \/ NetworkedQueries)
    \/ query_return

SpecOps == InitEither /\ [][NextOps]_vars

\* One terminal sells single units while reports and the dashboard are asked for.
NextQuery ==
    \/ Quiet /\ ~Networked /\ (\/ EmbeddedSales(UnitQuantities)
                               \/ EmbeddedQueries
                               \/ EmbeddedDashboard)
    \/ Quiet /\ Networked /\ (\/ NetworkedSales(UnitQuantities)
                              \/ NetworkedQueries
                              \/ NetworkedDashboard)
    \/ query_return

SpecQuery == InitEither /\ [][NextQuery]_vars

\* ------------------------------------------------- requests never answered
\* The auth lookup or the rpc request is never answered and no error comes back
\* either: the await of the call never resumes.
unanswered(c) ==
    /\ pc[c] \in {"auth", "send"}
    /\ req[c].op = "sale"
    /\ pc' = [pc EXCEPT ![c] = "unanswered"]
    /\ UNCHANGED <<embVars, clock, appVars, netVars, result>>

\* What a createSale call of the Supabase wrapper can do next.
CallStep(c) ==
    \/ getUser(c)
    \/ rpc_process_sale(c)
    \/ receive(c)

NextUnanswered ==
    \/ \E c \in Callers, id \in MedIds, q \in QtyArgs : rpcCreateSale(c, id, q)
    \/ \E c \in Callers : CallStep(c)
    \/ \E c \in Callers : net_return(c)
    \/ \E c \in Callers : unanswered(c)

\* A continuation that can run does run: the event loop resumes every await whose
\* promise has settled.
SpecUnanswered ==
    /\ InitNet
    /\ [][NextUnanswered]_vars
    /\ \A c \in Callers : WF_vars(CallStep(c))

\* ------------------------------------------------------ the sale screen
\* The sale screen of one terminal: inventory sales on the embedded store, inventory
\* and custom sales on the Supabase wrapper, with the quantities its boxes can hold.
NextPos ==
    \/ ~Networked /\ (\/ \E id \in MedIds : handleSelectMedicine(Terminal, id)
                      \/ \E q \in PosQuantities : handleSale(Terminal, q)
                      \/ TxBegin(Terminal)
                      \/ createSale_get(Terminal)
                      \/ createSale_update(Terminal)
                      \/ createSale_add(Terminal)
                      \/ TxCommit(Terminal)
                      \/ handleSale_done(Terminal))
    \/ Networked /\ NetworkedSales(PosQuantities)

SpecPos == InitEither /\ [][NextPos]_vars

\* ------------------------------------------------------- low stock
MaxStock == 10        \* the stock of an item on the inventory page is 0..MaxStock

ListLowStockThreshold == 10   \* med.quantity < 10, m.quantity < 10 (MedicineList)

\* const filteredMedicines = medicines.filter(med => ...), by filterStock
FilteredMedicines(meds, filterStock) ==
    LET Shown(med) ==
            IF filterStock = "low" THEN med.quantity < ListLowStockThreshold
            ELSE IF filterStock = "in-stock" THEN med.quantity >= ListLowStockThreshold
            ELSE TRUE
    IN  SelectSeq(meds, Shown)

\* Low stock items: {medicines.filter(m => m.quantity < 10).length}
LowStockFooter(meds) ==
    LET Low(m) == m.quantity < ListLowStockThreshold IN Len(SelectSeq(meds, Low))

\* An inventory of item 1 with q in stock, on the embedded store or on the server
\* (with the terminal signed in), and nothing under way.
InitStore(q) ==
    /\ \/ /\ medicines = [i \in {1} |-> [quantity |-> q, name |-> MedName(i),
                                         price |-> MedPrice(i)]]
          /\ srvMedicines = <<>>
          /\ session = [c \in Callers |-> NULL]
       \/ /\ medicines = <<>>
          /\ srvMedicines = [i \in {1} |-> [quantity |-> q, name |-> MedName(i),
                                            selling_price |-> MedPrice(i),
                                            purchase_price |-> MedCost(i)]]
          /\ session = [c \in Callers |-> IF c = Terminal THEN 1 ELSE NULL]
    /\ stock0 = [i \in DOMAIN medicines |-> medicines[i].quantity]
    /\ InitCallers

\* That store with an empty ledger, at the start of the clock.
InitInventory(q) ==
    /\ InitStore(q)
    /\ sales = <<>>
    /\ srvSales = <<>>
    /\ now = 0

\* The inventory page's store: any stock up to MaxStock.
InitStock == tz = 0 /\ \E q \in 0..MaxStock : InitInventory(q)

\* The dashboard and the inventory page load their data, on either store.
NextStock ==
    \/ ~Networked /\ (EmbeddedDashboard \/ (Quiet /\ getAllMedicines))
    \/ Networked /\ (NetworkedDashboard \/ (Quiet /\ netGetAllMedicines))
    \/ query_return

SpecStock == InitStock /\ [][NextStock]_vars

\* ------------------------------------------------------- the clock
MaxNow == 3           \* the wall clock shows 0..MaxNow

\* the offsets from UTC a terminal can be set to: behind, none, ahead
TimeZones == {0 - 1, 0, 1}

\* the days a date box of the report can hold ('YYYY-MM-DD')
ReportDays == 0..(MaxNow \div DayLength)

\* the local calendar day the instant t falls in
LocalDay(t) == (t + tz) \div DayLength

\* Time passes.
Tick ==
    /\ now < MaxNow
    /\ now' = now + 1
    /\ UNCHANGED <<medicines, sales, tx, pc, args, medicine, saleId, result, tz, stock0,
                   netVars, appVars>>

\* A stocked store, a terminal in some time zone, an empty ledger.
InitReport == tz \in TimeZones /\ InitInventory(MaxSales)

\* One terminal sells single units as time passes, and the sales lists are asked
\* for, on either store.
NextReport ==
    \/ Tick
    \/ Quiet /\ ~Networked /\ (\/ EmbeddedSales(UnitQuantities)
                               \/ getSalesHistory
                               \/ getTodaysSales
                               \/ \E startDate \in ReportDays, endDate \in ReportDays :
                                     getSalesByDateRange(startDate, endDate))
    \/ Quiet /\ Networked /\ (\/ NetworkedSales(UnitQuantities)
                              \/ netGetSalesHistory
                              \/ netGetTodaysSales
                              \/ \E startDate \in ReportDays, endDate \in ReportDays :
                                    netGetSalesByDateRange(startDate, endDate))
    \/ query_return

SpecReport == InitReport /\ [][NextReport]_vars

\* ------------------------------------------------------- the Reports page
TopN == 5             \* .slice(0, 5)
MaxRows == 6          \* the ledgers the top-selling list is computed over have MaxRows records

\* new Date().toISOString().split('T')[0]: the UTC calendar day of the instant t
ISODay(t) == t \div DayLength

\* what getSalesHistory() can answer: the ledger newest first
HistoryAnswers ==
    IF Networked THEN {WithUnitPrice(rows) : rows \in OrderBySaleDateDesc(srvSales)}
    ELSE {reverse_toArray(sales)}

\* what getTodaysSales() answers
TodaysAnswer ==
    IF Networked THEN TodaysSalesOf(MappedSales(srvSales), now)
    ELSE TodaysSalesOf(sales, now)

\* what getSalesByDateRange(startDate, endDate) can answer
RangeAnswers(startDate, endDate) ==
    IF Networked
    THEN {SalesByDateRangeOf(MappedSales(rows), startDate, endDate) :
             rows \in OrderBySaleDateDesc(srvSales)}
    ELSE {SalesByDateRangeOf(sales, startDate, endDate)}

\* const displayedSales = useMemo(...)
displayedSales(r) == IF r.viewMode = "today" THEN r.todaysSales ELSE r.sales

\* The value of a name as a property key that is an array index, or -1: such keys
\* come first in Object.values, in ascending order.
IndexKey(name) ==
    CASE name = "7" -> 7
      [] name = "101" -> 101
      [] OTHER -> 0 - 1

RECURSIVE FirstNames(_)
\* the names of the rows, each once, in the order of first appearance
FirstNames(rows) ==
    IF rows = <<>> THEN <<>>
    ELSE LET before == FirstNames(SubSeq(rows, 1, Len(rows) - 1))
             name == rows[Len(rows)].medicineName
         IN  IF \E i \in DOMAIN before : before[i] = name THEN before
             ELSE Append(before, name)

RECURSIVE Ascending(_)
\* index keys in ascending order
Ascending(names) ==
    IF names = {} THEN <<>>
    ELSE LET first == CHOOSE n \in names :
                          \A o \in names : IndexKey(n) <= IndexKey(o)
         IN  <<first>> \o Ascending(names \ {first})

\* Object.values(byMedicine): the entries in the order of the object's own keys
byMedicine(rows) ==
    LET names == FirstNames(rows)
        IsIndex(n) == IndexKey(n) >= 0
        IsName(n) == IndexKey(n) < 0
        keys == Ascending({names[i] : i \in {j \in DOMAIN names : IsIndex(names[j])}})
                \o SelectSeq(names, IsName)
        Of(n) == LET Named(sale) == sale.medicineName = n IN SelectSeq(rows, Named)
    IN  [k \in DOMAIN keys |->
            [name |-> keys[k],
             quantity |-> Sum([i \in DOMAIN Of(keys[k]) |-> Of(keys[k])[i].quantitySold]),
             revenue |-> Sum([i \in DOMAIN Of(keys[k]) |-> Of(keys[k])[i].totalPrice])]]

RECURSIVE SortByRevenue(_)
\* .sort((a, b) => b.revenue - a.revenue): a stable sort, highest revenue first
SortByRevenue(entries) ==
    IF entries = <<>> THEN <<>>
    ELSE LET sorted == SortByRevenue(SubSeq(entries, 1, Len(entries) - 1))
             last == entries[Len(entries)]
             k == Cardinality({i \in DOMAIN sorted : sorted[i].revenue >= last.revenue})
         IN  SubSeq(sorted, 1, k) \o <<last>> \o SubSeq(sorted, k + 1, Len(sorted))

\* const stats = useMemo(...); avgTransaction is kept as numerator and denominator
ReportStats(displayed) ==
    LET totalRevenue == Sum([i \in DOMAIN displayed |-> displayed[i].totalPrice])
        sorted == SortByRevenue(byMedicine(displayed))
    IN  [totalRevenue |-> totalRevenue,
         totalItems |-> Sum([i \in DOMAIN displayed |-> displayed[i].quantitySold]),
         totalTransactions |-> Len(displayed),
         avgTransaction |-> IF Len(displayed) > 0 THEN <<totalRevenue, Len(displayed)>>
                            ELSE <<0, 1>>,
         topSelling |-> SubSeq(sorted, 1, Min({TopN, Len(sorted)}))]

\* The page renders with its new state: the memoized statistics are recomputed.
Render(next) ==
    /\ report' = [next EXCEPT !.stats = ReportStats(displayedSales(next))]
    /\ UNCHANGED <<medicines, sales, tx, pc, args, medicine, saleId, result, clock, stock0,
                   netVars, selected, edits, dash, snaps, view, auth, pos, invVars>>

\* const fetchSales = useCallback(...), up to its await
fetchSales(r) == [r EXCEPT !.loading = TRUE, !.error = FALSE, !.fetching = TRUE]

\* The page is opened: the hook's state is initial and its effect calls fetchSales.
Reports_mount ==
    /\ report.pc = "closed"
    /\ Render(fetchSales([NoReport EXCEPT
                             !.pc = "open",
                             !.dateRange = [start |-> ISODay(now), end |-> ISODay(now)]]))

\* onClick={() => { setViewMode('all'); refresh(); }}; while loading is true the
\* page shows the spinner and no button.
Reports_all ==
    /\ report.pc = "open" /\ ~report.loading
    /\ Render(fetchSales([report EXCEPT !.viewMode = "all"]))

\* onClick={() => setViewMode('today')}
Reports_today ==
    /\ report.pc = "open" /\ ~report.loading
    /\ Render([report EXCEPT !.viewMode = "today"])

\* onClick={() => setViewMode('range')}
Reports_range ==
    /\ report.pc = "open" /\ ~report.loading
    /\ Render([report EXCEPT !.viewMode = "range"])

\* the date boxes, shown in range mode: setDateRange(prev => ({ ...prev, ... }))
Reports_setDateRange(start, end) ==
    /\ report.pc = "open" /\ ~report.loading
    /\ report.viewMode = "range"
    /\ \/ start # report.dateRange.start /\ end = report.dateRange.end
       \/ start = report.dateRange.start /\ end # report.dateRange.end
    /\ Render([report EXCEPT !.dateRange = [start |-> start, end |-> end]])

\* const handleDateFilter = async () => {...}, from the Apply button shown in range
\* mode, up to the await; getByDateRange starts with setLoading(true).
handleDateFilter ==
    /\ report.pc = "open" /\ ~report.loading
    /\ report.viewMode = "range"
    /\ IF report.viewMode = "range"
       THEN Render([report EXCEPT !.loading = TRUE,
                                  !.ranging = <<report.dateRange.start,
                                                report.dateRange.end>>])
       ELSE IF report.viewMode = "all" THEN Render(fetchSales(report))
       ELSE UNCHANGED vars

\* fetchSales after its await: both results are in.  A history that failed sets
\* error and leaves sales; today's sales that failed leave todaysSales.
fetchSales_settle ==
    /\ report.fetching
    /\ \E history \in HistoryAnswers, historyOk \in BOOLEAN, todayOk \in BOOLEAN :
          Render([report EXCEPT
                     !.sales = IF historyOk THEN history ELSE @,
                     !.error = ~historyOk,
                     !.todaysSales = IF todayOk THEN TodaysAnswer ELSE @,
                     !.loading = FALSE,
                     !.fetching = FALSE,
                     !.failed = @ \/ ~historyOk \/ ~todayOk])

\* getByDateRange after its await: a result that succeeded replaces sales.
getByDateRange_settle ==
    /\ report.ranging # <<>>
    /\ \E data \in RangeAnswers(report.ranging[1], report.ranging[2]), ok \in BOOLEAN :
          Render([report EXCEPT
                     !.sales = IF ok THEN data ELSE @,
                     !.loading = FALSE,
                     !.ranging = <<>>,
                     !.failed = @ \/ ~ok])

\* a record of the embedded ledger made earlier, and a row of the server's
PastSale(id, name, total, date) ==
    [id |-> id, medicineId |-> 1, medicineName |-> name, quantitySold |-> 1,
     unitPrice |-> total, totalPrice |-> total, saleDate |-> date]
PastRow(id, name, total, date) ==
    [id |-> id, medicine_id |-> 1, medicine_name |-> name, quantity_sold |-> 1,
     unit_price |-> total, total_price |-> total, seller_id |-> 1, sale_date |-> date]

\* the days on which the records of a ledger of n records were made: yesterday's
\* records before today's
PastDates(n) ==
    {[i \in 1..n |-> IF i <= k THEN 0 ELSE DayLength] : k \in 0..n}

\* The page is closed; it is the second day, and the ledger holds up to MaxSales
\* records of yesterday and today, on either store.
InitReports ==
    /\ tz = 0
    /\ now = DayLength
    /\ InitStore(1)
    /\ \E n \in 0..MaxSales : \E dates \in PastDates(n) :
          IF session[Terminal] = NULL
          THEN /\ sales = [i \in 1..n |-> PastSale(i, MedName(1), MedPrice(1), dates[i])]
               /\ srvSales = <<>>
          ELSE /\ srvSales = [i \in 1..n |-> PastRow(i, MedName(1), MedPrice(1), dates[i])]
               /\ sales = <<>>

NextReports ==
    \/ Reports_mount
    \/ Reports_all
    \/ Reports_today
    \/ Reports_range
    \/ \E start \in ReportDays, end \in ReportDays : Reports_setDateRange(start, end)
    \/ handleDateFilter
    \/ fetchSales_settle
    \/ getByDateRange_settle

SpecReports == InitReports /\ [][NextReports]_vars

\* the names on the records the top-selling list is computed over, by position:
\* a record carries the name of its position or the first name
TopNames == <<"Aspirin", "Panadol", "101", "7", "Ibuprofen", "Zinc", "Consultation">>
TopLedgers ==
    {[i \in 1..MaxRows |-> PastSale(i, IF own[i] THEN TopNames[i] ELSE TopNames[1],
                                    total[i], 0)] :
        own \in [1..MaxRows -> BOOLEAN], total \in [1..MaxRows -> {5, 10}]}

\* The page is closed and the embedded ledger holds MaxRows records of today.
InitTop ==
    /\ tz = 0
    /\ now = 0
    /\ InitStore(1)
    /\ session[Terminal] = NULL
    /\ sales \in TopLedgers
    /\ srvSales = <<>>

NextTop ==
    \/ Reports_mount
    \/ fetchSales_settle
    \/ Reports_today
    \/ Reports_all

SpecTop == InitTop /\ [][NextTop]_vars

\* ------------------------------------------------------- authentication
\* the accounts: user 1 has the profile of an admin, user 2 that of a staff member
Users == {1, 2}
RoleOf(u) == IF u = 1 THEN "admin" ELSE "staff"
\* the row of profiles with id u
ProfileOf(u) == [id |-> u, role |-> RoleOf(u)]

\* const isAdmin = profile?.role === 'admin'
isAdmin == auth.profile # NoProfile /\ auth.profile.role = "admin"

\* The provider renders its children (the routes) unless it shows the spinner, the
\* error screen or, without the environment variables, the configuration screen.
ChildrenRendered == auth.pc = "subscribed" /\ ~auth.loading /\ ~auth.error

\* ProtectedRoute renders <Outlet />
ProtectedRoute == ChildrenRendered /\ ~auth.loading /\ auth.user # NULL

\* AdminRoute, inside ProtectedRoute, renders <Outlet />: Reports, Suppliers, Settings
AdminRoute == ProtectedRoute /\ ~auth.loading /\ auth.user # NULL /\ isAdmin

\* An auth step changes the provider's state and perhaps the client's session.
AuthStep(next, sessionUser) ==
    /\ auth' = next
    /\ session' = [session EXCEPT ![Terminal] = sessionUser]
    /\ UNCHANGED <<embVars, pc, result, clock, srvMedicines, srvSales, req, resp, effect,
                   selected, edits, dash, snaps, view, report, pos, invVars>>

\* The provider mounts and its effect runs: without the environment variables it
\* only stops loading; otherwise it subscribes and starts initAuth.
AuthProvider_mount(env) ==
    /\ auth.pc = "unmounted"
    /\ AuthStep(IF env THEN [auth EXCEPT !.pc = "subscribed", !.initAuth = TRUE]
                ELSE [auth EXCEPT !.pc = "unconfigured", !.loading = FALSE],
                session[Terminal])

\* the callback given to onAuthStateChange, up to its await: the closure's profile
\* is the one of the first render, null, so the profile is fetched whenever the
\* session has a user
onAuthStateChange(a, sessionUser) ==
    IF sessionUser # NULL
    THEN [a EXCEPT !.user = sessionUser, !.fetches = @ \cup {sessionUser}]
    ELSE [a EXCEPT !.user = NULL, !.profile = NoProfile, !.loading = FALSE]

\* initAuth after its await: the session could not be read in time, or it is there.
initAuth_settle ==
    /\ auth.initAuth
    /\ \/ AuthStep([auth EXCEPT !.initAuth = FALSE, !.error = TRUE, !.loading = FALSE],
                   session[Terminal])
       \/ AuthStep(IF session[Terminal] # NULL
                   THEN [auth EXCEPT !.initAuth = FALSE, !.user = session[Terminal],
                                     !.fetches = @ \cup {session[Terminal]}]
                   ELSE [auth EXCEPT !.initAuth = FALSE, !.user = NULL, !.loading = FALSE],
                   session[Terminal])

\* The client reports its session again (initial session, refreshed token).
tokenRefreshed ==
    /\ auth.pc = "subscribed"
    /\ AuthStep(onAuthStateChange(auth, session[Terminal]), session[Terminal])

\* login(email, password) from the page at /login, which every visitor can open
\* while the provider renders its children; the client signs u in.
login(u) ==
    /\ auth.pc = "subscribed"
    /\ ChildrenRendered
    /\ AuthStep(onAuthStateChange(auth, u), u)

\* logout() from the sidebar of the protected layout; the client signs out.
logout ==
    /\ auth.pc = "subscribed"
    /\ ProtectedRoute
    /\ AuthStep(onAuthStateChange(auth, NULL), NULL)

\* fetchProfile(userId) after its await: the row, or an error that is only logged;
\* finally setLoading(false).
fetchProfile_settle(userId) ==
    /\ userId \in auth.fetches
    /\ \E found \in BOOLEAN :
          AuthStep([auth EXCEPT !.fetches = @ \ {userId},
                                !.profile = IF found THEN ProfileOf(userId) ELSE @,
                                !.loading = FALSE],
                   session[Terminal])

\* The terminal before the application starts, with or without a stored session.
InitAuth ==
    /\ srvMedicines \in InitialServerInventories
    /\ srvSales = <<>>
    /\ session \in {[c \in Callers |-> IF c = Terminal THEN u ELSE NULL] :
                       u \in {NULL} \cup Users}
    /\ medicines = <<>>
    /\ stock0 = <<>>
    /\ sales = <<>>
    /\ now = 0
    /\ tz = 0
    /\ InitCallers

NextAuth ==
    \/ \E env \in BOOLEAN : AuthProvider_mount(env)
    \/ initAuth_settle
    \/ tokenRefreshed
    \/ \E u \in Users : login(u)
    \/ logout
    \/ \E u \in Users : fetchProfile_settle(u)

SpecAuth == InitAuth /\ [][NextAuth]_vars

\* ------------------------------------------------------- the edit form
\* what the edit form can submit after validate(): a name that is not empty, a
\* selling price above 0, and a quantity of 0 or more (the string "0" passes
\* !formData.quantity and parseInt gives 0)
FormNames == {"Aspirin", "Aspirin Forte"}
FormPrices == {5, 7}
FormQuantities == 0..MaxInitQty
FormUpdates ==
    {[quantity |-> q, name |-> n, price |-> p] :
        n \in FormNames, p \in FormPrices, q \in FormQuantities}
NetFormUpdates ==
    {[quantity |-> q, name |-> n, sellingPrice |-> p] :
        n \in FormNames, p \in FormPrices, q \in FormQuantities}

\* The back office edits items with the form and lists the inventory, on either
\* store.
NextForm ==
    \/ Quiet /\ ~Networked /\ \E id \in MedIds, updates \in FormUpdates :
                                 updateMedicine(id, updates)
    \/ Quiet /\ ~Networked /\ getAllMedicines
    \/ Quiet /\ Networked /\ \E id \in MedIds, updates \in NetFormUpdates :
                                netUpdateMedicine(id, updates)
    \/ Quiet /\ Networked /\ netGetAllMedicines
    \/ query_return

SpecForm == InitEither /\ [][NextForm]_vars

\* ------------------------------------------------------- the Confirm button
\* what the boxes of the custom sale can hold: as reset, or a name, a price and a
\* quantity
CustomItems == {NoCustomItem, [quantity |-> 1, name |-> "Consultation", price |-> 10]}
PosModes == {"inventory", "custom"}

\* The sale screen of one terminal, on either store: items are selected, the mode
\* is switched, the custom boxes are filled, Confirm is clicked, calls run and end.
NextConfirm ==
    \/ \E id \in MedIds : handleSelectMedicine(Terminal, id)
    \/ \E mode \in PosModes : setMode(mode)
    \/ \E item \in CustomItems : setCustomItem(item)
    \/ \E q \in PosQuantities : handleSale(Terminal, q)
    \/ ~Networked /\ (\/ TxBegin(Terminal)
                      \/ createSale_get(Terminal)
                      \/ createSale_update(Terminal)
                      \/ createSale_add(Terminal)
                      \/ TxCommit(Terminal))
    \/ Networked /\ (\/ getUser(Terminal)
                     \/ rpc_process_sale(Terminal)
                     \/ insert_sale(Terminal)
                     \/ receive(Terminal))
    \/ handleSale_done(Terminal)

SpecConfirm == InitEither /\ [][NextConfirm]_vars

\* ----------------------------------------------------------- vocabulary
\* Caller c's call ends in this step.
Returns(c) == pc[c] # "done" /\ pc'[c] = "done"

\* The sum of quantitySold over the records of `ledger` that reference item id.
RECURSIVE SoldOf(_, _)
SoldOf(id, ledger) ==
    IF ledger = <<>> THEN 0
    ELSE (IF Head(ledger).medicineId = id THEN Head(ledger).quantitySold ELSE 0)
         + SoldOf(id, Tail(ledger))

\* ------------------------------------------------------------------ C1
\* C1: whatever createSale calls were made, with whatever integer quantities and
\* in whatever interleaving, every stored item quantity is >= 0.
C1_StockNeverNegative ==
    \A i \in DOMAIN medicines : medicines[i].quantity >= 0

\* A sale has taken the last unit of an item.
C1_Witness ==
    \E c \in Callers :
        /\ pc[c] = "done" /\ result[c].success /\ args[c].quantity > 0
        /\ args[c].medicineId \in DOMAIN medicines
        /\ medicines[args[c].medicineId].quantity = 0

\* ------------------------------------------------------------------ C2
\* C2: a createSale that returns success:false leaves the medicines table and the
\* sales table exactly as they were: no quantity changed, no record added.
C2_FailureChangesNothing ==
    [][\A c \in Callers :
          (Returns(c) /\ ~result'[c].success) =>
              (medicines' = medicines /\ sales' = sales)]_vars

\* A call failed after both of its writes had been made inside the transaction.
C2_Witness ==
    \E c \in Callers :
        /\ pc[c] = "done" /\ ~result[c].success
        /\ result[c].error.message = "Storage failure" /\ saleId[c] # NULL

\* ------------------------------------------------------------------ C3
\* C3: for every item in the inventory, the quantity it started with minus its
\* current quantity equals the sum of quantitySold over the sale records that
\* reference it.
C3_StockMatchesLedger ==
    \A i \in DOMAIN medicines :
        stock0[i] - medicines[i].quantity = SoldOf(i, sales)

\* Two units of one item have been sold.
C3_Witness ==
    \E i \in DOMAIN medicines : SoldOf(i, sales) >= 2 /\ Len(sales) >= 2

\* ------------------------------------------------------------------ C4
\* Both calls of the race have returned.
RaceOver == \A c \in Callers : pc[c] = "done"

\* The call did not end in a failure of the storage, the network, the server
\* or the user lookup.
Faultless(c) ==
    result[c].error.message \notin
        {"Storage failure", "Network error", "RPC error", "User not authenticated"}

RaceEmbedded == \A c \in Callers : req[c].op = "none"
RaceQuantity ==
    IF RaceEmbedded THEN medicines[args[1].medicineId].quantity
    ELSE srvMedicines[req[1].medicineId].quantity
RaceLedger == IF RaceEmbedded THEN sales ELSE srvSales

\* C4: an item with quantity 1 and two concurrent createSale(item, 1) calls: in every
\* interleaving of their steps in which neither call meets an infrastructure
\* failure, exactly one call returns success, the other fails with the
\* insufficient-stock error, the final quantity is 0 and the ledger holds exactly
\* one record.
C4_OneOfTwoWins ==
    (RaceOver /\ \A c \in Callers : Faultless(c)) =>
        /\ \E w \in Callers :
              /\ result[w].success
              /\ \A l \in Callers \ {w} :
                    /\ ~result[l].success
                    /\ result[l].error.message = "Insufficient stock"
        /\ RaceQuantity = 0
        /\ Len(RaceLedger) = 1

\* The embedded race has run to its end without an infrastructure failure.
C4_Witness ==
    RaceOver /\ RaceEmbedded /\ \A c \in Callers : Faultless(c)

\* The networked race has run to its end without an infrastructure failure.
C4_WitnessNetworked ==
    RaceOver /\ ~RaceEmbedded /\ \A c \in Callers : Faultless(c)

\* ------------------------------------------------------------------ C5
\* C5: a successful createSale(itemId, q) on an item with quantity n and price p
\* returns remainingStock = n - q, stores quantity n - q, and appends one record
\* with quantitySold = q, unitPrice = p and totalPrice = p * q.
C5_SaleArithmetic ==
    [][\A c \in Callers :
          (Returns(c) /\ result'[c].success) =>
              LET id == args[c].medicineId
                  q == args[c].quantity
                  n == medicines[id].quantity
                  p == medicines[id].price
                  rec == sales'[Len(sales')]
              IN  /\ result'[c].data.remainingStock = n - q
                  /\ medicines'[id].quantity = n - q
                  /\ Len(sales') = Len(sales) + 1
                  /\ SubSeq(sales', 1, Len(sales)) = sales
                  /\ rec.medicineId = id
                  /\ rec.quantitySold = q
                  /\ rec.unitPrice = p
                  /\ rec.totalPrice = p * q]_vars

\* A sale of two units has succeeded.
C5_Witness ==
    \E c \in Callers :
        pc[c] = "done" /\ result[c].success /\ result[c].data.quantitySold = 2

\* ------------------------------------------------------------------ C6
\* C6: createSale with a quantity below 1 fails (with an invalid-quantity error)
\* before any mutation: the call does not succeed, no stored quantity changes
\* (none is increased) and no sale record is appended.
C6_InvalidQuantityRejected ==
    [][\A c \in Callers :
          (Returns(c) /\ args[c].quantity < 1) =>
              /\ ~result'[c].success
              /\ medicines' = medicines
              /\ sales' = sales]_vars

\* ------------------------------------------------------------------ C7
\* C7: createSale(itemId, q) on an existing item whose quantity n is below q fails,
\* the error reports n as the available quantity (unless the storage itself
\* failed first), and the item's quantity and the ledger are unchanged.
C7_InsufficientStockReported ==
    [][\A c \in Callers :
          (/\ Returns(c)
           /\ args[c].medicineId \in DOMAIN medicines
           /\ medicines[args[c].medicineId].quantity < args[c].quantity) =>
              /\ ~result'[c].success
              /\ \/ result'[c].error.message = "Storage failure"
                 \/ /\ result'[c].error.message = "Insufficient stock"
                    /\ result'[c].error.available = medicines[args[c].medicineId].quantity
              /\ medicines' = medicines
              /\ sales' = sales]_vars

\* A call asked for two units of an item that had one.
C7_Witness ==
    \E c \in Callers :
        /\ pc[c] = "done" /\ ~result[c].success
        /\ result[c].error.message = "Insufficient stock"
        /\ result[c].error.available = 1 /\ args[c].quantity = 2

\* ------------------------------------------------------------------ C8
\* C8: createSale on an id that is not in the inventory when the transaction runs
\* fails with the not-found error (unless the storage itself failed first) and
\* changes neither an item nor the ledger.
C8_MissingItemRejected ==
    [][\A c \in Callers :
          (Returns(c) /\ args[c].medicineId \notin DOMAIN medicines) =>
              /\ ~result'[c].success
              /\ result'[c].error.message \in {"Medicine not found", "Storage failure"}
              /\ medicines' = medicines
              /\ sales' = sales]_vars

\* A call named item 1, which was in the inventory at first and has been deleted.
C8_Witness ==
    \E c \in Callers :
        /\ pc[c] = "done" /\ result[c].error.message = "Medicine not found"
        /\ args[c].medicineId = 1

\* A call named item 2 in an inventory that never held it.
C8_WitnessNeverExisted ==
    \E c \in Callers :
        /\ pc[c] = "done" /\ result[c].error.message = "Medicine not found"
        /\ args[c].medicineId = 2 /\ 2 \notin DOMAIN stock0

\* ------------------------------------------------------------------ C9
\* C9 as claimed: in networked mode, whenever createSale returns success:false, its
\* call changed no quantity and added no sale record on the server.
C9_FailureLeavesServerUnchanged ==
    \A c \in Callers :
        (pc[c] = "done" /\ req[c].op = "sale" /\ ~result[c].success) =>
            effect[c] = NoEffect

\* C9 as amended: in networked mode, whenever createSale returns success:false,
\* either its call changed nothing on the server, or the failure is the loss of
\* the response and the sale was committed whole: the quantity decremented and
\* exactly one record, for the requested item and quantity.
C9_FailureUnchangedUnlessResponseLost ==
    \A c \in Callers :
        (pc[c] = "done" /\ req[c].op = "sale" /\ ~result[c].success) =>
            \/ effect[c] = NoEffect
            \/ /\ result[c].error.message = "Network error"
               /\ effect[c].stock
               /\ \E i \in DOMAIN srvSales :
                     /\ effect[c].rows = {i}
                     /\ srvSales[i].medicine_id = req[c].medicineId
                     /\ srvSales[i].quantity_sold = req[c].quantity

\* One call was rejected for insufficient stock and changed nothing; another
\* returned a failure although the server had committed its sale.
C9_Witness ==
    \E c, d \in Callers :
        /\ pc[c] = "done" /\ req[c].op = "sale" /\ ~result[c].success
        /\ result[c].error.message = "Insufficient stock" /\ effect[c] = NoEffect
        /\ pc[d] = "done" /\ req[d].op = "sale" /\ ~result[d].success
        /\ effect[d].rows # {}

\* ----------------------------------------------------------------- C10
\* C10: a successful createCustomSale(name, quantity, totalPrice) appended exactly
\* one sale record, with no item reference and the supplied name, quantity and
\* totalPrice, and changed no inventory item.
C10_CustomSaleOnlyAppends ==
    \A c \in Callers :
        (pc[c] = "done" /\ req[c].op = "custom" /\ result[c].success) =>
            /\ ~effect[c].stock
            /\ \E i \in DOMAIN srvSales :
                  /\ effect[c].rows = {i}
                  /\ srvSales[i].medicine_id = NULL
                  /\ srvSales[i].medicine_name = req[c].name
                  /\ srvSales[i].quantity_sold = req[c].quantity
                  /\ srvSales[i].total_price = req[c].totalPrice

\* A custom sale of two units at 10 each has succeeded.
C10_Witness ==
    \E c \in Callers :
        /\ pc[c] = "done" /\ req[c].op = "custom" /\ result[c].success
        /\ req[c].quantity = 2 /\ req[c].totalPrice = 20

\* ------------------------------------------------------------------ C11
\* C11: the name and unit price stored in a sale record are those of the item as
\* its sale's transaction read them, and no later step (a rename or a new price
\* by updateMedicine, deleteMedicine) changes the name or unit price of a record
\* that exists.
C11_SnapshotSurvivesEdits ==
    [][/\ \A c \in Callers :
            (Returns(c) /\ result'[c].success) =>
                /\ sales'[Len(sales')].medicineName = medicines[args[c].medicineId].name
                /\ sales'[Len(sales')].unitPrice = medicines[args[c].medicineId].price
       /\ \A i \in DOMAIN sales :
            /\ i \in DOMAIN sales'
            /\ sales'[i].medicineName = sales[i].medicineName
            /\ sales'[i].unitPrice = sales[i].unitPrice]_vars

\* A record's item was renamed, a record's item has another price now, and a
\* record's item was deleted.
C11_Witness ==
    \E i \in DOMAIN sales :
        /\ sales[i].medicineId \in DOMAIN medicines
        /\ medicines[sales[i].medicineId].name # sales[i].medicineName
C11_WitnessRepriced ==
    \E i \in DOMAIN sales :
        /\ sales[i].medicineId \in DOMAIN medicines
        /\ medicines[sales[i].medicineId].price # sales[i].unitPrice
C11_WitnessDeleted ==
    \E i \in DOMAIN sales : sales[i].medicineId \notin DOMAIN medicines

\* ------------------------------------------------------------------ C19
\* C19: a sale made from the sale screen is decided by the item as stored when
\* the transaction runs, not by the item object the screen selected earlier:
\* the item is missing if it is not stored now, the stock is insufficient if the
\* stored quantity is below the requested one (and that stored quantity is
\* reported), and otherwise the stored quantity goes down by the requested one
\* and the record carries the stored price.
C19_CurrentStateDecides ==
    [][\A c \in Callers :
          (/\ Returns(c)
           /\ selected[c] # NoSelection
           /\ result'[c].error.message # "Storage failure") =>
              LET id == args[c].medicineId
                  q == args[c].quantity
              IN  IF id \notin DOMAIN medicines
                  THEN /\ ~result'[c].success
                       /\ result'[c].error.message = "Medicine not found"
                       /\ medicines' = medicines /\ sales' = sales
                  ELSE IF medicines[id].quantity < q
                  THEN /\ ~result'[c].success
                       /\ result'[c].error.message = "Insufficient stock"
                       /\ result'[c].error.available = medicines[id].quantity
                       /\ medicines' = medicines /\ sales' = sales
                  ELSE /\ result'[c].success
                       /\ medicines'[id].quantity = medicines[id].quantity - q
                       /\ Len(sales') = Len(sales) + 1
                       /\ sales'[Len(sales')].unitPrice = medicines[id].price
                       /\ sales'[Len(sales')].totalPrice = medicines[id].price * q]_vars

\* The screen's item object is stale when the sale ends: sold at a price other
\* than the one the screen shows; sold although the screen's object had too
\* little stock; refused although the screen's object had enough.
C19_Witness ==
    \E c \in Callers :
        /\ pc[c] = "done" /\ result[c].success /\ selected[c] # NoSelection
        /\ sales[Len(sales)].unitPrice # selected[c].price
C19_WitnessRestocked ==
    \E c \in Callers :
        /\ pc[c] = "done" /\ result[c].success /\ selected[c] # NoSelection
        /\ selected[c].quantity < args[c].quantity
C19_WitnessDepleted ==
    \E c \in Callers :
        /\ pc[c] = "done" /\ ~result[c].success /\ selected[c] # NoSelection
        /\ result[c].error.message = "Insufficient stock"
        /\ selected[c].quantity >= args[c].quantity

\* ------------------------------------------------------------------ C13
\* C13: the figures a getDashboardStats call returns -- totalItems, lowStockItems
\* and todaysRevenue -- are those of one committed state of the tables that
\* existed while the call ran: all as before a concurrent sale or all as after it.
C13_StatsFromOneSnapshot ==
    (dash.pc = "done" /\ dash.success /\ ~dash.swallowed) =>
        \E snap \in snaps :
            /\ dash.result.totalItems = StatsOf(snap).totalItems
            /\ dash.result.lowStockItems = StatsOf(snap).lowStockItems
            /\ dash.result.todaysRevenue = StatsOf(snap).todaysRevenue

\* ------------------------------------------------------------------ C12
\* C12: the ledger is append-only: every record that exists before a step --
\* of a sale, a custom sale, an add, update or delete of a medicine, a stock
\* adjustment or a query -- exists after it at the same place with the same
\* field values, on the embedded store and on the server.
C12_LedgerAppendOnly ==
    [][/\ \A i \in DOMAIN sales : i \in DOMAIN sales' /\ sales'[i] = sales[i]
       /\ \A i \in DOMAIN srvSales : i \in DOMAIN srvSales' /\ srvSales'[i] = srvSales[i]]_vars

\* A sold item was deleted afterwards (embedded); a sale, a custom sale and a
\* stock adjustment were made (server).
C12_Witness ==
    /\ Len(sales) = MaxSales
    /\ \E i \in DOMAIN sales : sales[i].medicineId \notin DOMAIN medicines
C12_WitnessNetworked ==
    /\ \E i, j \in DOMAIN srvSales :
          srvSales[i].medicine_id = NULL /\ srvSales[j].medicine_id # NULL
    /\ Len(stockAdjustments) >= 1

\* ------------------------------------------------------------------ C14
\* C14: a step of a query -- getSalesHistory, getTodaysSales, getSalesByDateRange,
\* getLowStockMedicines, getAllMedicines, searchMedicines answering, or
\* getDashboardStats reading or computing -- leaves the inventory and the ledger
\* of the embedded store and of the server as they were.
C14_QueriesChangeNothing ==
    [][((view' # view /\ view' # NoView) \/ dash' # dash) =>
          UNCHANGED <<medicines, sales, srvMedicines, srvSales>>]_vars

\* getSalesHistory answered with two records, newest first; the dashboard of the
\* Supabase variant computed its figures over a ledger that is not empty.
C14_Witness ==
    /\ view.query = "getSalesHistory" /\ view.success
    /\ Len(view.data) = 2
    /\ Len(sales) = 2 /\ view.data[1] = sales[2]
C14_WitnessDashboard ==
    /\ Networked
    /\ dash.pc = "done" /\ dash.result.todaysSalesCount >= 1

C15_WitnessNetwork ==
    \E c \in Callers : pc[c] = "done" /\ result[c].error.message = "Network error"
C15_WitnessRejected ==
    \E c \in Callers :
        pc[c] = "done" /\ ~Networked /\ result[c].error.message = "Insufficient stock"
C15_WitnessStorage ==
    \E c \in Callers : pc[c] = "done" /\ result[c].error.message = "Storage failure"
C15_WitnessCustom ==
    \E c \in Callers : pc[c] = "done" /\ req[c].op = "custom" /\ result[c].success

\* ------------------------------------------------------------------ C16
\* C16: one createSale call of the Supabase wrapper changes the server's tables in
\* at most one step: that step takes the requested quantity from the item once and
\* adds one record, and no later step of the same call changes them again, also
\* after a lost response.
C16_NoImplicitRetry ==
    [][\A c \in Callers :
          (req[c].op = "sale" /\ pc'[c] # "idle" /\ effect'[c] # effect[c]) =>
              /\ effect[c] = NoEffect
              /\ Cardinality(effect'[c].rows) = 1
              /\ Len(srvSales') = Len(srvSales) + 1
              /\ srvMedicines'[req[c].medicineId].quantity =
                    srvMedicines[req[c].medicineId].quantity - req[c].quantity]_vars

\* A call whose sale was committed ended on a lost response, with stock left for
\* another sale.
C16_Witness ==
    \E c \in Callers :
        /\ pc[c] = "done" /\ req[c].op = "sale"
        /\ result[c].error.message = "Network error"
        /\ Cardinality(effect[c].rows) = 1
        /\ srvMedicines[req[c].medicineId].quantity >= req[c].quantity

\* ------------------------------------------------------------------ C17
\* C17: on the server every sale record carries a seller, the signed-in user of
\* the terminal whose call created it; a request is only on its way from a
\* terminal with a signed-in user, and a call that ended on a missing user changed
\* nothing on the server.
C17_EveryRecordHasItsSeller ==
    /\ \A i \in DOMAIN srvSales : srvSales[i].seller_id # NULL
    /\ \A c \in Callers :
          /\ \A i \in effect[c].rows : srvSales[i].seller_id = session[c]
          /\ pc[c] \in {"send", "await"} => session[c] # NULL
          /\ (/\ pc[c] = "done"
              /\ result[c].error.message \in {"User not authenticated",
                                              "Cannot read properties of null"}) =>
                 ~result[c].success /\ effect[c] = NoEffect

\* The terminal without a user had a sale refused, and a custom sale, while the
\* other terminal's records are in the ledger.
C17_Witness ==
    /\ session[2] = NULL
    /\ pc[2] = "done" /\ result[2].error.message = "User not authenticated"
    /\ Len(srvSales) >= 1
C17_WitnessCustom ==
    /\ session[2] = NULL
    /\ pc[2] = "done" /\ result[2].error.message = "Cannot read properties of null"
    /\ \E i \in DOMAIN srvSales : srvSales[i].medicine_id = NULL

\* ------------------------------------------------------------------ C18
\* C18: every createSale call returns in the end, also when the auth lookup or the
\* rpc is never answered: a call that has not returned can always take a step.
C18_CallCanAlwaysGoOn ==
    \A c \in Callers :
        pc[c] \notin {"idle", "done"} => ENABLED (CallStep(c) \/ unanswered(c))

\* ------------------------------------------------------------------ C20
\* C20: every sale record in the ledger, of the embedded store and of the server,
\* has quantitySold >= 1.
C20_QuantitySoldAtLeastOne ==
    /\ \A i \in DOMAIN sales : sales[i].quantitySold >= 1
    /\ \A i \in DOMAIN srvSales : srvSales[i].quantity_sold >= 1

\* ------------------------------------------------------------------ C21
\* C21: the figures a getDashboardStats call returns with success:true are sums
\* over the tables as they stood at some moment of the call: totalItems is the sum
\* of the quantities and totalStockValue the sum of quantity times price (purchase
\* price on the Supabase wrapper) of one state of the medicines, todaysRevenue the
\* sum of totalPrice over the records of today of one state of the ledger, and
\* lowStockCount is the size of lowStockItems.
C21_FiguresAreTheSums ==
    (dash.pc = "done" /\ dash.success) =>
        /\ \E snap \in snaps :
              /\ dash.result.totalItems = StatsOf(snap).totalItems
              /\ dash.result.totalStockValue = StatsOf(snap).totalStockValue
        /\ \E snap \in snaps : dash.result.todaysRevenue = StatsOf(snap).todaysRevenue
        /\ dash.result.lowStockCount = Len(dash.result.lowStockItems)

\* ------------------------------------------------------------------ C22
\* C22: one threshold classifies low stock everywhere: for the same inventory the
\* dashboard's lowStockItems, the inventory list under the 'low' filter and the
\* footer's count name the same items, and an item with quantity 7 is among them.
C22_OneThreshold ==
    (/\ dash.pc = "done" /\ dash.success /\ ~dash.swallowed
     /\ view.query = "getAllMedicines" /\ view.success) =>
        LET low == dash.result.lowStockItems
            listed == FilteredMedicines(view.data, "low")
        IN  /\ {low[i].id : i \in DOMAIN low} = {listed[i].id : i \in DOMAIN listed}
            /\ dash.result.lowStockCount = LowStockFooter(view.data)
            /\ \A i \in DOMAIN view.data :
                  view.data[i].quantity = 7 =>
                      \E j \in DOMAIN low : low[j].id = view.data[i].id

\* ------------------------------------------------------------------ C23
\* C23: getSalesByDateRange(start, end), when it succeeds, returns exactly the
\* records of the ledger whose timestamp lies in the local calendar days start
\* to end, the first instant of start and the last instant of end included.
C23_ExactlyTheDaysAsked ==
    (view.query = "getSalesByDateRange" /\ view.success) =>
        LET ledger == IF Networked THEN MappedSales(srvSales) ELSE sales
            InDays(sale) == /\ LocalDay(sale.saleDate) >= view.args[1]
                            /\ LocalDay(sale.saleDate) <= view.args[2]
            wanted == SelectSeq(ledger, InDays)
        IN  /\ Len(view.data) = Len(wanted)
            /\ \A i \in DOMAIN wanted :
                  \E j \in DOMAIN view.data : view.data[j].id = wanted[i].id

\* C24: the top-selling list of the Reports page has at most 5 entries, one per
\* distinct item name of the displayed sales, each with the summed revenue of its
\* name; it is ordered by revenue descending, entries with equal revenue in the
\* order in which their names first appear in the displayed sales, and a name left
\* out does not come before a listed one in that order.
C24_TopSellingOrder ==
    report.pc = "open" =>
        LET top == report.stats.topSelling
            shown == displayedSales(report)
            names == {shown[i].medicineName : i \in DOMAIN shown}
            FirstAt(n) == Min({i \in DOMAIN shown : shown[i].medicineName = n})
            Revenue(n) == LET Named(sale) == sale.medicineName = n
                              of == SelectSeq(shown, Named)
                          IN  Sum([i \in DOMAIN of |-> of[i].totalPrice])
            Before(a, b) == \/ Revenue(a) > Revenue(b)
                            \/ Revenue(a) = Revenue(b) /\ FirstAt(a) < FirstAt(b)
        IN  /\ Len(top) = Min({5, Cardinality(names)})
            /\ \A i \in DOMAIN top : top[i].name \in names /\ top[i].revenue = Revenue(top[i].name)
            /\ \A i \in DOMAIN top : \A j \in DOMAIN top : i < j => Before(top[i].name, top[j].name)
            /\ \A n \in names : \A i \in DOMAIN top :
                  n \notin {top[j].name : j \in DOMAIN top} => Before(top[i].name, n)

\* C30: in Reports, once every pending load has settled (and none has failed), the
\* displayed sales are those of the selected view mode: the whole ledger for 'all',
\* the sales of today for 'today', the records of the days start..end for 'range'.
C30_DisplayedMatchesMode ==
    (/\ report.pc = "open"
     /\ ~report.loading /\ ~report.fetching /\ report.ranging = <<>>
     /\ ~report.failed) =>
        LET shown == displayedSales(report)
            ledger == IF Networked THEN MappedSales(srvSales) ELSE sales
            InRange(sale) == /\ LocalDay(sale.saleDate) >= report.dateRange.start
                             /\ LocalDay(sale.saleDate) <= report.dateRange.end
            Today(sale) == LocalDay(sale.saleDate) = LocalDay(now)
            Every(sale) == TRUE
            Ids(rows) == {rows[i].id : i \in DOMAIN rows}
            wanted == CASE report.viewMode = "all" -> SelectSeq(ledger, Every)
                        [] report.viewMode = "today" -> SelectSeq(ledger, Today)
                        [] report.viewMode = "range" -> SelectSeq(ledger, InRange)
        IN  /\ Len(shown) = Len(wanted)
            /\ Ids(shown) = Ids(wanted)

C26_GuardsEnforceRoles ==
    /\ ProtectedRoute => (auth.user # NULL /\ auth.user = session[Terminal])
    /\ AdminRoute => /\ auth.user # NULL
                     /\ auth.profile # NoProfile
                     /\ auth.profile.role = "admin"
                     /\ RoleOf(auth.user) = "admin"

\* C27: an updateMedicine(id, updates) that succeeds sets every supplied field of
\* the item to the supplied value, a quantity of 0 included, and leaves the fields
\* that were not supplied as they were.  (On the server a request that failed
\* changes nothing; a step that changed the row is one that succeeded.)
C27_UpdateSetsSuppliedFields ==
    [][\A id \in MedIds :
          /\ \A updates \in FormUpdates :
                (updateMedicine(id, updates) /\ id \in DOMAIN medicines) =>
                    /\ medicines'[id].name = updates.name
                    /\ medicines'[id].price = updates.price
                    /\ medicines'[id].quantity = updates.quantity
          /\ \A updates \in NetFormUpdates :
                (/\ netUpdateMedicine(id, updates)
                 /\ id \in DOMAIN srvMedicines
                 /\ srvMedicines' # srvMedicines) =>
                    /\ srvMedicines'[id].name = updates.name
                    /\ srvMedicines'[id].selling_price = updates.sellingPrice
                    /\ srvMedicines'[id].quantity = updates.quantity
                    /\ srvMedicines'[id].purchase_price = srvMedicines[id].purchase_price]_vars

\* C28: addStockAdjustment keeps the adjustment log and the stock in step.  A call
\* that got as far as the stock change returns success: when it returns, its row is
\* in the log and the item's stock has changed by plus the quantity for a return and
\* by minus the quantity for damage or a correction.  A call that ends earlier
\* without its row in the log has failed, and has not changed the stock.
C28_LogAndStockInStep ==
    [][/\ (adjustment.pc = "stock" /\ adjustment'.pc = "idle") =>
             LET id == adjustment.medicineId
                 change == IF adjustment.type = "return" THEN adjustment.quantity
                           ELSE 0 - adjustment.quantity
             IN  /\ \E i \in DOMAIN stockAdjustments' :
                       /\ stockAdjustments'[i].medicine_id = id
                       /\ stockAdjustments'[i].adjustment_type = adjustment.type
                 /\ id \in DOMAIN srvMedicines =>
                       /\ id \in DOMAIN srvMedicines'
                       /\ srvMedicines'[id].quantity = srvMedicines[id].quantity + change
       /\ (/\ adjustment.pc \in {"auth", "insert"} /\ adjustment'.pc = "idle"
           /\ stockAdjustments' = stockAdjustments) =>
             srvMedicines' = srvMedicines]_vars

\* C29: on the sale screen no handleSale invocation is left running with
\* isProcessing false, and once every invocation has ended (by an early return,
\* a success, a failure result or a throw) isProcessing is false; while
\* isProcessing is true the Confirm button is disabled, and the terminal never
\* has two submissions in flight.
C29_OneSubmissionAtATime ==
    /\ pos.running <= 1
    /\ pos.running = 0 => ~pos.isProcessing
    /\ pos.running = 1 => (pos.isProcessing /\ pc[Terminal] # "idle")
    /\ pos.isProcessing => ~ConfirmEnabled(Terminal)

\* A sale that failed is about to end: its result is in and isProcessing still true.
C29_WitnessFailureEnds ==
    /\ pos.isProcessing /\ pos.running = 1
    /\ pc[Terminal] = "done" /\ ~result[Terminal].success

\* A custom sale and an inventory sale have both been through Confirm.
C29_WitnessBothModes ==
    /\ ~pos.isProcessing /\ pos.running = 0
    /\ \E i \in DOMAIN srvSales : srvSales[i].medicine_id = NULL
    /\ \E i \in DOMAIN srvSales : srvSales[i].medicine_id # NULL
====
